---------------------------- MODULE Spec2Model ----------------------------
(***************************************************************************)
(* A model of the DocChat question-answering pipeline: the relevance gate, *)
(* the research step, the verification step and the workflow graph that    *)
(* sequences them (src/agents), the retriever builder with its on-disk      *)
(* vector stores (src/retriever) and the document processor with its chunk *)
(* cache (src/document_processor).  Texts are TLA+ strings handled         *)
(* character by character, so the conversions of the code (strip, upper,   *)
(* capitalize, split, join, the report format) are computed as the code    *)
(* computes them.                                                          *)
(***************************************************************************)
EXTENDS Integers, Sequences, FiniteSets, TLC

(***************************************************************************)
(* Bounds of the model.                                                    *)
(***************************************************************************)
\* Longest chunk list the retriever returns.
MaxDocs == 2
\* Most lines in one verification response of the model collaborator.
MaxLines == 2
\* Most fragments in one classifier output of the model collaborator.
MaxFrags == 2
\* Most RESEARCH steps explored in one run (the graph itself has no cap).
IterCap == 3
\* Most items in one list field of a verification dict.
MaxClaims == 2
\* Most build_hybrid_retriever calls explored in one behaviour.
MaxBuilds == 2
\* Most DocumentProcessor.process calls explored in one behaviour.
MaxProcessCalls == 2
\* RelevanceChecker.check calls made one after the other on one checker.
MaxChecks == 3

(***************************************************************************)
(* Python string operations, over TLA+ strings.                            *)
(***************************************************************************)
LowerAlphabet == "abcdefghijklmnopqrstuvwxyz"
UpperAlphabet == "ABCDEFGHIJKLMNOPQRSTUVWXYZ"
Digits == "0123456789"

\* s[i] as a one-character string.
CharAt(s, i) == SubSeq(s, i, i)

\* The upper-case letter of each lower-case letter, and the converse.
ToUpper ==
    [c \in {CharAt(LowerAlphabet, i) : i \in 1..Len(LowerAlphabet)} |->
        CharAt(UpperAlphabet,
               CHOOSE i \in 1..Len(LowerAlphabet) : CharAt(LowerAlphabet, i) = c)]

ToLower ==
    [c \in {CharAt(UpperAlphabet, i) : i \in 1..Len(UpperAlphabet)} |->
        CharAt(LowerAlphabet,
               CHOOSE i \in 1..Len(UpperAlphabet) : CharAt(UpperAlphabet, i) = c)]

UpperChar(c) == IF c \in DOMAIN ToUpper THEN ToUpper[c] ELSE c

LowerChar(c) == IF c \in DOMAIN ToLower THEN ToLower[c] ELSE c

RECURSIVE UpperStr(_)
\* str.upper
UpperStr(s) ==
    IF s = "" THEN ""
    ELSE UpperChar(CharAt(s, 1)) \o UpperStr(SubSeq(s, 2, Len(s)))

RECURSIVE LowerStr(_)
\* str.lower
LowerStr(s) ==
    IF s = "" THEN ""
    ELSE LowerChar(CharAt(s, 1)) \o LowerStr(SubSeq(s, 2, Len(s)))

\* str.capitalize: first character upper-cased, the rest lower-cased.
Capitalize(s) ==
    IF s = "" THEN ""
    ELSE UpperChar(CharAt(s, 1)) \o LowerStr(SubSeq(s, 2, Len(s)))

RECURSIVE LStripChars(_, _)
\* str.lstrip(chars)
LStripChars(s, chars) ==
    IF s = "" THEN ""
    ELSE IF CharAt(s, 1) \in chars THEN LStripChars(SubSeq(s, 2, Len(s)), chars)
    ELSE s

RECURSIVE RStripChars(_, _)
\* str.rstrip(chars)
RStripChars(s, chars) ==
    IF s = "" THEN ""
    ELSE IF CharAt(s, Len(s)) \in chars
    THEN RStripChars(SubSeq(s, 1, Len(s) - 1), chars)
    ELSE s

\* The ASCII whitespace str.strip() removes: space, tab, line feed, carriage
\* return, form feed, and the characters 0B (vertical tab), 1C, 1D, 1E and 1F
\* (the file, group, record and unit separators), written here as they are.
Whitespace == {" ", "\t", "\n", "\r", "\f", "", "", "", "", ""}

\* str.strip(): leading and trailing whitespace removed.
Strip(s) == RStripChars(LStripChars(s, Whitespace), Whitespace)

\* str.strip(ch): leading and trailing occurrences of the character ch removed.
StripChar(s, ch) == RStripChars(LStripChars(s, {ch}), {ch})

\* sub in s
Contains(s, sub) ==
    \E i \in 1..(Len(s) - Len(sub) + 1) : SubSeq(s, i, i + Len(sub) - 1) = sub

RECURSIVE FindFrom(_, _, _)
FindFrom(s, c, i) ==
    IF i > Len(s) THEN 0
    ELSE IF CharAt(s, i) = c THEN i
    ELSE FindFrom(s, c, i + 1)

\* str.find for one character, 1-based; 0 when absent.
Find(s, c) == FindFrom(s, c, 1)

StartsWith(s, p) == Len(s) >= Len(p) /\ SubSeq(s, 1, Len(p)) = p

EndsWith(s, p) == Len(s) >= Len(p) /\ SubSeq(s, Len(s) - Len(p) + 1, Len(s)) = p

RECURSIVE Split(_, _)
\* str.split(c) for a one-character separator: the pieces, empty ones kept.
Split(s, c) ==
    LET i == Find(s, c)
    IN  IF i = 0 THEN <<s>>
        ELSE <<SubSeq(s, 1, i - 1)>> \o Split(SubSeq(s, i + 1, Len(s)), c)

RECURSIVE Join(_, _)
\* sep.join(parts)
Join(parts, sep) ==
    IF parts = <<>> THEN ""
    ELSE IF Len(parts) = 1 THEN parts[1]
    ELSE parts[1] \o sep \o Join(Tail(parts), sep)

RECURSIVE IntStr(_)
\* str(n) for a natural number n.
IntStr(n) ==
    IF n < 10 THEN CharAt(Digits, n + 1)
    ELSE IntStr(n \div 10) \o CharAt(Digits, (n % 10) + 1)

\* dict.get(key, default); a dict is a function from its keys.
Get(d, key, default) == IF key \in DOMAIN d THEN d[key] ELSE default

\* d[key] = value
Put(d, key, value) ==
    [x \in (DOMAIN d) \cup {key} |-> IF x = key THEN value ELSE d[x]]

\* The empty dict.
EmptyDict == [x \in {} |-> ""]

\* All sequences over S of length at most n.
SeqsUpTo(S, n) == UNION {[1..k -> S] : k \in 0..n}


(***************************************************************************)
(* Data.  A Document is [page_content, metadata]; metadata is a dict that  *)
(* may carry "source" and "page".  An optional value (a page, or None) is  *)
(* a sequence of length at most one: <<>> is None, <<5>> is 5.             *)
(*                                                                         *)
(* The outcome of one chat-completion call is [kind, text]:                *)
(*   kind = "raise": the call raised, text is str(e);                      *)
(*   kind = "none":  it returned a message whose content is None;          *)
(*   kind = "text":  it returned the content text.                         *)
(***************************************************************************)
None == <<>>

Some(v) == <<v>>

\* Python truthiness of an optional integer: None and 0 are falsy.
Truthy(opt) == opt # None /\ opt[1] # 0

Raise(msg) == [kind |-> "raise", text |-> msg]

NoContent == [kind |-> "none", text |-> ""]

Text(t) == [kind |-> "text", text |-> t]

\* The outcome recorded while no model call has been made.
NoCall == [kind |-> "nocall", text |-> ""]

\* str(e) of the AttributeError raised by None.strip().
NoneStripError == "'NoneType' object has no attribute 'strip'"

\* response.choices[0].message.content.strip() inside the try block: the
\* stripped text, or the exception the except clause receives.
ContentStripped(out) ==
    CASE out.kind = "raise" -> [ok |-> FALSE, text |-> out.text]
      [] out.kind = "none" -> [ok |-> FALSE, text |-> NoneStripError]
      [] OTHER -> [ok |-> TRUE, text |-> Strip(out.text)]

(***************************************************************************)
(* RelevanceChecker (src/agents/relevance_checker.py).                     *)
(***************************************************************************)
\* A mutant of ParseLabel: PARTIAL is looked for before CAN_ANSWER.
ParseLabelPartialFirst(llm_response) ==
    IF Contains(llm_response, "PARTIAL") THEN "PARTIAL"
    ELSE IF Contains(llm_response, "CAN_ANSWER") THEN "CAN_ANSWER"
    ELSE IF Contains(llm_response, "NO_MATCH") THEN "NO_MATCH"
    ELSE "PARTIAL"

\* The label read from the stripped, upper-cased classifier output.
ParseLabel(llm_response) ==
    IF Contains(llm_response, "CAN_ANSWER") THEN "CAN_ANSWER"
    ELSE IF Contains(llm_response, "PARTIAL") THEN "PARTIAL"
    ELSE IF Contains(llm_response, "NO_MATCH") THEN "NO_MATCH"
    ELSE "PARTIAL"

\* A mutant of RelevanceCheck: no short cut for an empty retrieval.
RelevanceCheckNoShortCut(top_docs, out) ==
    LET r == ContentStripped(out)
    IN  IF ~r.ok
        THEN [label |-> "NO_MATCH", called |-> TRUE, raised |-> FALSE]
        ELSE [label |-> ParseLabel(UpperStr(r.text)), called |-> TRUE,
              raised |-> FALSE]

\* A mutant of RelevanceCheck: a failed model call is answered with PARTIAL.
RelevanceCheckFailOpen(top_docs, out) ==
    LET r == ContentStripped(out)
    IN  IF top_docs = <<>>
        THEN [label |-> "NO_MATCH", called |-> FALSE, raised |-> FALSE]
        ELSE IF ~r.ok
        THEN [label |-> "PARTIAL", called |-> TRUE, raised |-> FALSE]
        ELSE [label |-> ParseLabel(UpperStr(r.text)), called |-> TRUE,
              raised |-> FALSE]

\* RelevanceChecker.check after retriever.invoke returned top_docs; out is the
\* outcome of the classification call, used only when the call is made.
\* called: whether the model was called; raised: whether check raised.
RelevanceCheck(top_docs, out) ==
    LET r == ContentStripped(out)
    IN  IF top_docs = <<>>
        THEN [label |-> "NO_MATCH", called |-> FALSE, raised |-> FALSE]
        ELSE IF ~r.ok
        THEN [label |-> "NO_MATCH", called |-> TRUE, raised |-> FALSE]
        ELSE [label |-> ParseLabel(UpperStr(r.text)), called |-> TRUE,
              raised |-> FALSE]

(***************************************************************************)
(* ResearchAgent (src/agents/research_agent.py).                           *)
(***************************************************************************)
FallbackAnswer == "I cannot answer this question based on the provided documents."

\* The "[Source N: ...]" tag of the i-th document (i is 1-based).
SourceRef(i, doc) ==
    LET source == Get(doc.metadata, "source", "Unknown")
        page == Get(doc.metadata, "page", None)
    IN  IF Truthy(page)
        THEN "[Source " \o IntStr(i) \o ": " \o source \o ", Page "
                 \o IntStr(page[1]) \o "]"
        ELSE "[Source " \o IntStr(i) \o ": " \o source \o "]"

\* The sources entry of the i-th document.
SourceEntry(i, doc) ==
    LET source == Get(doc.metadata, "source", "Unknown")
        page == Get(doc.metadata, "page", None)
    IN  [index |-> i, source |-> source,
         page |-> IF Truthy(page) THEN page ELSE None]

\* ResearchAgent._build_context_with_sources
BuildContextWithSources(documents) ==
    [context |-> Join([i \in 1..Len(documents) |->
                          SourceRef(i, documents[i]) \o "\n"
                              \o documents[i].page_content], "\n\n"),
     sources |-> [i \in 1..Len(documents) |-> SourceEntry(i, documents[i])]]

\* A mutant of DraftAnswer: no fallback for a response without text.
DraftAnswerNoFallback(out) ==
    LET r == ContentStripped(out)
    IN  IF r.ok THEN Strip(r.text) ELSE FallbackAnswer

\* The draft answer made from the outcome of the generation call.
DraftAnswer(out) ==
    LET r == ContentStripped(out)
        llm_response == IF r.ok THEN r.text ELSE FallbackAnswer
    IN  IF llm_response # "" THEN Strip(llm_response) ELSE FallbackAnswer

\* A mutant of Generate: the sources are left out when the call fails.
GenerateDropsSources(documents, out) ==
    LET built == BuildContextWithSources(documents)
    IN  [draft_answer |-> DraftAnswer(out),
         context_used |-> built.context,
         sources |-> IF ContentStripped(out).ok /\ Strip(out.text) # ""
                     THEN built.sources ELSE <<>>,
         raised |-> FALSE]

\* A mutant of Generate: the model call is made outside the try block, so its
\* failure raises out of generate.
GenerateUnguarded(documents, out) ==
    LET built == BuildContextWithSources(documents)
    IN  [draft_answer |-> DraftAnswer(out),
         context_used |-> built.context,
         sources |-> built.sources,
         raised |-> ~ContentStripped(out).ok]

\* ResearchAgent.generate
Generate(documents, out) ==
    LET built == BuildContextWithSources(documents)
    IN  [draft_answer |-> DraftAnswer(out),
         context_used |-> built.context,
         sources |-> built.sources,
         raised |-> FALSE]

(***************************************************************************)
(* VerificationAgent (src/agents/verification_agent.py).  A verification  *)
(* dict is a function from its keys; the list fields are sequences.        *)
(***************************************************************************)
\* The keys the line loop of parse_verification_response accepts.
ParsedKeys ==
    {"Supported", "Unsupported claims", "Contradictions", "Relevant",
     "Additional details"}

\* The keys the defaulting loop ensures, which are those the formatter reads.
ReportKeys ==
    <<"Supported", "Unsupported Claims", "Contradictions", "Relevant",
      "Additional Details">>

RECURSIVE ParseItems(_)
\* [item.strip().strip('"').strip("'") for item in items if item.strip()]
ParseItems(items) ==
    IF items = <<>> THEN <<>>
    ELSE LET item == Head(items)
         IN  (IF Strip(item) # ""
              THEN <<StripChar(StripChar(Strip(item), "\""), "'")>>
              ELSE <<>>) \o ParseItems(Tail(items))

\* One pass of the line loop: the dict after the line is read.
ParseLine(verification, line) ==
    IF ~Contains(line, ":") THEN verification
    ELSE LET i == Find(line, ":")
             key == Capitalize(Strip(SubSeq(line, 1, i - 1)))
             value == Strip(SubSeq(line, i + 1, Len(line)))
         IN  IF key \notin ParsedKeys THEN verification
             ELSE IF key \in {"Unsupported claims", "Contradictions"}
             THEN IF StartsWith(value, "[") /\ EndsWith(value, "]")
                  THEN Put(verification, key,
                           ParseItems(Split(SubSeq(value, 2, Len(value) - 1), ",")))
                  ELSE Put(verification, key, <<>>)
             ELSE IF key = "Additional details"
             THEN Put(verification, key, value)
             ELSE Put(verification, key, UpperStr(value))

RECURSIVE ParseLines(_, _)
ParseLines(verification, lines) ==
    IF lines = <<>> THEN verification
    ELSE ParseLines(ParseLine(verification, Head(lines)), Tail(lines))

\* The default of a key missing after the line loop.
DefaultOf(key) ==
    IF key \in {"Unsupported Claims", "Contradictions"} THEN <<>>
    ELSE IF key = "Additional Details" THEN ""
    ELSE "NO"

RECURSIVE EnsureKeys(_, _)
EnsureKeys(verification, keys) ==
    IF keys = <<>> THEN verification
    ELSE LET key == Head(keys)
         IN  EnsureKeys(IF key \in DOMAIN verification THEN verification
                        ELSE Put(verification, key, DefaultOf(key)),
                        Tail(keys))

\* VerificationAgent.parse_verification_response
ParseVerificationResponse(response_text) ==
    EnsureKeys(ParseLines(EmptyDict, Split(response_text, "\n")), ReportKeys)

\* VerificationAgent.format_verification_report
FormatVerificationReport(verification) ==
    LET supported == Get(verification, "Supported", "NO")
        unsupported_claims == Get(verification, "Unsupported Claims", <<>>)
        contradictions == Get(verification, "Contradictions", <<>>)
        relevant == Get(verification, "Relevant", "NO")
        additional_details == Get(verification, "Additional Details", "")
    IN  "**Supported:** " \o supported \o "\n"
        \o "**Unsupported Claims:** "
        \o (IF unsupported_claims # <<>> THEN Join(unsupported_claims, ", ")
            ELSE "None") \o "\n"
        \o "**Contradictions:** "
        \o (IF contradictions # <<>> THEN Join(contradictions, ", ")
            ELSE "None") \o "\n"
        \o "**Relevant:** " \o relevant \o "\n"
        \o "**Additional Details:** "
        \o (IF additional_details # "" THEN additional_details ELSE "None")
        \o "\n"

\* The verdict check builds when it cannot use the model's response.
DefaultVerdict(details) ==
    [k \in {"Supported", "Unsupported Claims", "Contradictions", "Relevant",
            "Additional Details"} |->
        CASE k \in {"Supported", "Relevant"} -> "NO"
          [] k \in {"Unsupported Claims", "Contradictions"} -> <<>>
          [] OTHER -> details]

\* The verification dict check formats, from the outcome of the model call.
\* parse_verification_response returns None only when it raises, which it does
\* for no string: the "Failed to parse the model's response." verdict of check
\* is never built.
Verdict(out) ==
    LET r == ContentStripped(out)
        sanitized_response == IF r.ok /\ r.text # "" THEN Strip(r.text) ELSE ""
    IN  IF ~r.ok THEN DefaultVerdict("Model error: " \o r.text)
        ELSE IF sanitized_response = ""
        THEN DefaultVerdict("Empty response from the model.")
        ELSE ParseVerificationResponse(sanitized_response)

\* documents' contents joined, the context of the verification prompt.
VerificationContext(documents) ==
    Join([i \in 1..Len(documents) |-> documents[i].page_content], "\n\n")

\* VerificationAgent.check
VerificationCheck(documents, out) ==
    [verification_report |-> FormatVerificationReport(Verdict(out)),
     context_used |-> VerificationContext(documents),
     raised |-> FALSE]

(***************************************************************************)
(* The collaborators' possible answers.                                    *)
(***************************************************************************)
DocA ==
    [page_content |-> "Section 5: termination requires 30 days notice.",
     metadata |-> [source |-> "contract.pdf", page |-> Some(5)]]

DocB ==
    [page_content |-> "Payment is due within 30 days.",
     metadata |-> [source |-> "terms.md", page |-> None]]

\* A chunk of the page numbered 0.
DocCover ==
    [page_content |-> "Cover sheet.",
     metadata |-> [source |-> "contract.pdf", page |-> Some(0)]]

Docs == {DocA, DocB}

\* The chunk lists the retriever may hold for the question.
DocLists == SeqsUpTo(Docs, MaxDocs)

\* The chunk lists ResearchAgent.generate may be given.
ResearchDocLists == SeqsUpTo(Docs \cup {DocCover}, MaxDocs)

Questions == {"What is the termination clause?"}

\* str(e) of the errors a model call raises.
ErrorMessages == {"Request timed out."}

\* What the classification call may do in a run of the workflow.
GateOutcomes ==
    {Raise(m) : m \in ErrorMessages} \cup {NoContent}
        \cup {Text(t) : t \in {"CAN_ANSWER", "PARTIAL", "NO_MATCH\n", "",
                               "I am unsure."}}

\* What the generation call may do.
ResearchOutcomes ==
    {Raise(m) : m \in ErrorMessages} \cup {NoContent}
        \cup {Text(t) : t \in
                {"", " \n", "",
                 "Termination requires 30 days notice [Source 1, Page 5].\n"}}

\* What the verification call may do in a run of the workflow.
VerifyOutcomes ==
    {Raise(m) : m \in ErrorMessages} \cup {NoContent}
        \cup {Text(t) : t \in
                {"",
                 "Supported: YES\nRelevant: YES",
                 "Supported: NO\nRelevant: NO",
                 "Supported: YES\nRelevant: NO",
                 "Supported: NO\nContradictions: [Supported: NO]\nRelevant: YES",
                 "Supported: YES\nContradictions: [Relevant: NO]\nRelevant: YES",
                 "The answer looks fine."}}

\* Classifier outputs for the relevance gate taken alone: up to MaxFrags
\* fragments, concatenated.
GateFragments ==
    {"CAN_ANSWER", "PARTIAL", "NO_MATCH", "can_answer", "No_Match", " ",
     "unsure."}

GateTexts == {Join(fs, "") : fs \in SeqsUpTo(GateFragments, MaxFrags)}

\* Verification responses for the verification agent taken alone: up to
\* MaxLines lines.
VerifyLines ==
    {"Supported: YES", "Supported: NO", "Relevant: YES", "relevant: no ",
     "Unsupported Claims: [the notice period, 'the fee']",
     "Contradictions: [Supported: NO]",
     "Additional Details: The draft matches Section 5.",
     "The answer looks fine."}

VerifyTexts == {Join(ls, "\n") : ls \in SeqsUpTo(VerifyLines, MaxLines)}

\* The items of the list fields of a verification dict.
ClaimItems == {"the notice period", "the fee"}

\* The verification dicts format_verification_report is given.
Verdicts ==
    {[k \in {"Supported", "Unsupported Claims", "Contradictions", "Relevant",
             "Additional Details"} |->
        CASE k = "Supported" -> s
          [] k = "Unsupported Claims" -> u
          [] k = "Contradictions" -> c
          [] k = "Relevant" -> r
          [] OTHER -> d] :
     s \in {"YES", "NO"}, r \in {"YES", "NO"},
     u \in SeqsUpTo(ClaimItems, MaxClaims),
     c \in SeqsUpTo(ClaimItems, MaxClaims),
     d \in {"", "The draft matches Section 5."}}

\* The calls of one agent taken alone: [agent, documents, outcome], and the
\* verification dicts formatted and parsed back.
Failures == {Raise(m) : m \in ErrorMessages} \cup {NoContent}

AgentCalls ==
    [agent : {"gate"}, documents : DocLists,
     outcome : Failures \cup {Text(t) : t \in GateTexts}]
    \cup [agent : {"research"}, documents : ResearchDocLists,
          outcome : ResearchOutcomes]
    \cup [agent : {"verify"}, documents : DocLists,
          outcome : Failures \cup {Text(t) : t \in VerifyTexts}]
    \cup [agent : {"roundtrip"}, documents : {<<>>}, outcome : {NoCall},
          verdict : Verdicts]

(***************************************************************************)
(* AgentWorkflow (src/agents/workflow.py).                                 *)
(***************************************************************************)
VARIABLES
    pc,              \* where the run is: "start", a graph node about to run,
                     \* "END", "returned" or "error"
    state,           \* the AgentState threaded through the graph
    retrieved,       \* the chunk list the retriever returns for the question
                     \* (the same list each time it is invoked)
    retrievals,      \* retriever.invoke calls made so far
    llm,             \* the outcome of the last model call
    calls,           \* model calls made so far, per agent
    classification,  \* the label the relevance gate returned, "" before it ran
    generated,       \* what ResearchAgent.generate returned last
    verdict,         \* the verification dict of the last VERIFY
    iterations,      \* RESEARCH steps run so far
    last,            \* the node that ran last
    always_unsupported, \* every verdict so far had Supported = "NO"
    error,           \* what raised out of full_pipeline, "" if nothing
    result,          \* what full_pipeline returned
    args,            \* the arguments of the last researcher.generate and of
                     \* the last verifier.check of the run, None before
    call,            \* an agent called on its own: [agent, documents, outcome]
    ret,             \* what that call returned
    vector_cache,    \* the directories under VECTOR_STORE_DIR: for each
                     \* chunk-set hash that has one, the documents in its store
    builders,        \* the build_hybrid_retriever call of each caller
    built,           \* the hashes whose store some call built to the end
    builds,          \* build_hybrid_retriever calls made so far
    pickles,         \* the files of the chunk cache directory: for each file
                     \* hash that has one, [mtime, chunks, readable]
    clock,           \* the time, in days
    proc,            \* the DocumentProcessor.process call under way
    cited,           \* the sources shown for the chunks process returned
    gate,            \* a RelevanceChecker called repeatedly: the checker, the
                     \* retriever, what the classifier has answered to each
                     \* request so far, and the calls made
    session          \* the session of the interface: the state dict of
                     \* process_question and the call under way

vars ==
    <<pc, state, retrieved, retrievals, llm, calls, classification, generated,
      verdict, iterations, last, always_unsupported, error, result, args,
      call, ret, vector_cache, builders, built, builds, pickles, clock, proc,
      cited, gate, session>>

\* The variables of a run of the workflow.
run ==
    <<pc, state, retrieved, retrievals, llm, calls, classification, generated,
      verdict, iterations, last, always_unsupported, error, result, args>>

\* The variables of an agent called on its own.
unit == <<call, ret>>

\* The variables of the retriever builder.
stores == <<vector_cache, builders, built, builds>>

\* The variables of the document processor.
ingest == <<pickles, clock, proc, cited>>

\* The variables the workflow and its agents never touch.
rest == <<stores, ingest, gate, session>>

\* src/retriever/builder.py
EMBEDDING_BATCH_SIZE == 500

RECURSIVE Concat(_)
\* "".join(parts), by halves.
Concat(parts) ==
    IF parts = <<>> THEN ""
    ELSE IF Len(parts) = 1 THEN parts[1]
    ELSE LET h == Len(parts) \div 2
         IN  Concat(SubSeq(parts, 1, h)) \o Concat(SubSeq(parts, h + 1, Len(parts)))

\* A chunk of a long document.
ManualChunk(n) ==
    [page_content |-> "Step " \o IntStr(n) \o ".",
     metadata |-> [source |-> "manual.pdf", page |-> Some(n)]]

\* The chunks of the long document: three batches.
ManualChunks == [n \in 1..(2 * EMBEDDING_BATCH_SIZE + 1) |-> ManualChunk(n)]

(***************************************************************************)
(* hashlib.sha256(...).hexdigest() of an ASCII text (the bytes of a file   *)
(* are the codes of its content).  A 32-bit word is <<high, low>>, its two *)
(* 16-bit halves.                                                          *)
(***************************************************************************)
\* The characters 20 to 5F and 61 to 7E, in the order of their codes (a
\* grave accent, 60, cannot be written in a string).
PrintableLow == " !\"#$%&'()*+,-./0123456789:;<=>?@ABCDEFGHIJKLMNOPQRSTUVWXYZ[\\]^_"

PrintableHigh == "abcdefghijklmnopqrstuvwxyz{|}~"

\* The code of each ASCII character of the texts of the model.
AsciiCode ==
    [c \in {CharAt(PrintableLow, i) : i \in 1..Len(PrintableLow)}
              \cup {CharAt(PrintableHigh, i) : i \in 1..Len(PrintableHigh)}
              \cup {"\t", "\n", "\r", "\f", "", "", "", "", ""} |->
        CASE c = "\t" -> 9 [] c = "\n" -> 10 [] c = "" -> 11
          [] c = "\f" -> 12 [] c = "\r" -> 13 [] c = "" -> 28
          [] c = "" -> 29 [] c = "" -> 30 [] c = "" -> 31
          [] \E i \in 1..Len(PrintableLow) : CharAt(PrintableLow, i) = c ->
                31 + (CHOOSE i \in 1..Len(PrintableLow) : CharAt(PrintableLow, i) = c)
          [] OTHER ->
                96 + (CHOOSE i \in 1..Len(PrintableHigh) : CharAt(PrintableHigh, i) = c)]

\* text.encode()
Encode(text) ==
    SubSeq([i \in 1..Len(text) |-> AsciiCode[CharAt(text, i)]], 1, Len(text))

RECURSIVE Xor16(_, _)
Xor16(x, y) ==
    IF x = 0 THEN y
    ELSE IF y = 0 THEN x
    ELSE ((x + y) % 2) + (2 * Xor16(x \div 2, y \div 2))

RECURSIVE And16(_, _)
And16(x, y) ==
    IF x = 0 \/ y = 0 THEN 0
    ELSE ((x % 2) * (y % 2)) + (2 * And16(x \div 2, y \div 2))

Xor32(a, b) == <<Xor16(a[1], b[1]), Xor16(a[2], b[2])>>

And32(a, b) == <<And16(a[1], b[1]), And16(a[2], b[2])>>

Not32(a) == <<65535 - a[1], 65535 - a[2]>>

\* Rotation to the right by n < 16 bits.
RotRBelow16(a, n) ==
    <<(a[1] \div 2^n) + ((a[2] % 2^n) * 2^(16 - n)),
      (a[2] \div 2^n) + ((a[1] % 2^n) * 2^(16 - n))>>

\* Rotation to the right by n < 32 bits.
RotR(a, n) ==
    IF n < 16 THEN RotRBelow16(a, n) ELSE RotRBelow16(<<a[2], a[1]>>, n - 16)

\* Shift to the right by n < 16 bits.
ShR(a, n) == <<a[1] \div 2^n, (a[2] \div 2^n) + ((a[1] % 2^n) * 2^(16 - n))>>

RECURSIVE SumHalves(_, _)
SumHalves(ws, half) ==
    IF ws = <<>> THEN 0 ELSE Head(ws)[half] + SumHalves(Tail(ws), half)

\* The sum of the words ws modulo 2^32.
Add32(ws) ==
    LET low == SumHalves(ws, 2)
        high == SumHalves(ws, 1) + (low \div 65536)
    IN  <<high % 65536, low % 65536>>

Ch(x, y, z) == Xor32(And32(x, y), And32(Not32(x), z))

Maj(x, y, z) == Xor32(Xor32(And32(x, y), And32(x, z)), And32(y, z))

BigSigma0(x) == Xor32(Xor32(RotR(x, 2), RotR(x, 13)), RotR(x, 22))

BigSigma1(x) == Xor32(Xor32(RotR(x, 6), RotR(x, 11)), RotR(x, 25))

SmallSigma0(x) == Xor32(Xor32(RotR(x, 7), RotR(x, 18)), ShR(x, 3))

SmallSigma1(x) == Xor32(Xor32(RotR(x, 17), RotR(x, 19)), ShR(x, 10))

\* The round constants and the initial hash value.
RoundConstants ==
    <<
      <<17034, 12184>>, <<28983, 17553>>, <<46528, 64463>>, <<59829, 56229>>,
      <<14678, 49755>>, <<23025, 4593>>, <<37439, 33444>>, <<43804, 24277>>,
      <<55303, 43672>>, <<4739, 23297>>, <<9265, 34238>>, <<21772, 32195>>,
      <<29374, 23924>>, <<32990, 45566>>, <<39900, 1703>>, <<49563, 61812>>,
      <<58523, 27073>>, <<61374, 18310>>, <<4033, 40390>>, <<9228, 41420>>,
      <<11753, 11375>>, <<19060, 33962>>, <<23728, 43484>>, <<30457, 35034>>,
      <<38974, 20818>>, <<43057, 50797>>, <<45059, 10184>>, <<48985, 32711>>,
      <<50912, 3059>>, <<54695, 37191>>, <<1738, 25425>>, <<5161, 10599>>,
      <<10167, 2693>>, <<11803, 8504>>, <<19756, 28156>>, <<21304, 3347>>,
      <<25866, 29524>>, <<30314, 2747>>, <<33218, 51502>>, <<37490, 11397>>,
      <<41663, 59553>>, <<43034, 26187>>, <<49739, 35696>>, <<51052, 20899>>,
      <<53650, 59417>>, <<54937, 1572>>, <<62478, 13701>>, <<4202, 41072>>,
      <<6564, 49430>>, <<7735, 27656>>, <<10056, 30540>>, <<13488, 48309>>,
      <<14620, 3251>>, <<20184, 43594>>, <<23452, 51791>>, <<26670, 28659>>,
      <<29839, 33518>>, <<30885, 25455>>, <<33992, 30740>>, <<36039, 520>>,
      <<37054, 65530>>, <<42064, 27883>>, <<48889, 41975>>, <<50801, 30962>>>>

InitialHash ==
    <<
      <<27145, 58983>>, <<47975, 44677>>, <<15470, 62322>>, <<42319, 62778>>,
      <<20750, 21119>>, <<39685, 26764>>, <<8067, 55723>>, <<23520, 52505>>>>

\* The message padded: the bytes, 80, zeros up to 56 modulo 64, and the
\* length in bits on 8 bytes.
Padded(bytes) ==
    LET n == Len(bytes)
        zeros == (119 - (n % 64)) % 64
        bits == 8 * n
        tail == [i \in 1..(1 + zeros + 8) |->
                    IF i = 1 THEN 128
                    ELSE IF i <= 1 + zeros + 4 THEN 0
                    ELSE (bits \div 2^(8 * (1 + zeros + 8 - i))) % 256]
    IN  bytes \o SubSeq(tail, 1, 1 + zeros + 8)

\* The 16 words of the block that starts after byte number at.
BlockWords(padded, at) ==
    SubSeq([j \in 1..16 |->
               <<(padded[at + (4 * j) - 3] * 256) + padded[at + (4 * j) - 2],
                 (padded[at + (4 * j) - 1] * 256) + padded[at + (4 * j)]>>],
           1, 16)

RECURSIVE Schedule(_)
\* The message schedule: the 16 words of the block extended to 64.
Schedule(w) ==
    IF Len(w) = 64 THEN w
    ELSE LET t == Len(w) + 1
         IN  Schedule(Append(w, Add32(<<SmallSigma1(w[t - 2]), w[t - 7],
                                        SmallSigma0(w[t - 15]), w[t - 16]>>)))

\* One round on the working variables v = <<a, b, c, d, e, f, g, h>>.
Round(v, k, w) ==
    LET t1 == Add32(<<v[8], BigSigma1(v[5]), Ch(v[5], v[6], v[7]), k, w>>)
        t2 == Add32(<<BigSigma0(v[1]), Maj(v[1], v[2], v[3])>>)
    IN  <<Add32(<<t1, t2>>), v[1], v[2], v[3], Add32(<<v[4], t1>>), v[5], v[6],
          v[7]>>

RECURSIVE Rounds(_, _, _)
Rounds(v, w, t) ==
    IF t > 64 \/ Len(v) # 8 THEN v
    ELSE Rounds(Round(v, RoundConstants[t], w[t]), w, t + 1)

\* The hash value after one more block.
Compress(hash, block) ==
    LET v == Rounds(hash, Schedule(block), 1)
    IN  <<Add32(<<hash[1], v[1]>>), Add32(<<hash[2], v[2]>>),
          Add32(<<hash[3], v[3]>>), Add32(<<hash[4], v[4]>>),
          Add32(<<hash[5], v[5]>>), Add32(<<hash[6], v[6]>>),
          Add32(<<hash[7], v[7]>>), Add32(<<hash[8], v[8]>>)>>

RECURSIVE Blocks(_, _, _)
Blocks(hash, padded, at) ==
    IF at >= Len(padded) \/ Len(hash) # 8 THEN hash
    ELSE Blocks(Compress(hash, BlockWords(padded, at)), padded, at + 64)

HexDigits == "0123456789abcdef"

\* The four hexadecimal digits of a 16-bit half.
Hex16(x) ==
    CharAt(HexDigits, (x \div 4096) + 1) \o CharAt(HexDigits, ((x \div 256) % 16) + 1)
        \o CharAt(HexDigits, ((x \div 16) % 16) + 1) \o CharAt(HexDigits, (x % 16) + 1)

\* hashlib.sha256(text.encode()).hexdigest(), computed.
Sha256Computed(text) ==
    LET hash == Blocks(InitialHash, Padded(Encode(text)), 0)
    IN  Concat([i \in 1..16 |-> Hex16(hash[(i + 1) \div 2][2 - (i % 2)])])

\* The digests of the texts the model hashes, as Sha256Computed gives them.
Digests ==
    LET known ==
        {
         <<"%PDF contract",
           "41076bc5d32b6e319b03a76395e488b28bf8355cbb1ad040142c63237ecd3c95">>,
         <<"%PDF copy",
           "e30d5e0968214d19eb0ef7b4b551fe237d1a0d928e1a30eacb65ff55d5a2614d">>,
         <<"# Terms",
           "9a748fe9e781beea40e2a21af555fafd8538db98122c4bcaa4cc06ab745bf074">>,
         <<"a,b",
           "1eb7c54d52831bbfe8942af0b1c56b7409523a59ed6ca99c1174fef7eb32c1b5">>,
         <<"Section 5: termination requires 30 days notice.",
           "cafee6692a3686769ccb06a20a247d169e8cd931b0138bab088d3b8268337f2c">>,
         <<"The notice is given in writing.",
           "1c20e9539ad14f85ef8c39ba4ecf3eb7b19ce46bf3b2ac4beddcf6bc8f416007">>,
         <<"Payment is due within 30 days.",
           "63275eebdca0d61b331ef6408059f5a0df710dfcec01c23efa89331bf4284120">>,
         <<"7f4ab0c6725151cf",
           "5e48931461576c229f3b65cf2993b9e4bbe66d971599b325ddba547d0b54817c">>,
         <<"a7ab4f9b4490b7ed",
           "5e48931461576c2263f04a2b9f7ae191208a18e17b1286a9b4c573b96d42ca79">>,
         <<Concat([n \in 1..Len(ManualChunks) |-> ManualChunks[n].page_content]),
           "24dcf899009f189eedd1fb2fe241d675e00266e4fd27998a9af5edba0f398c4b">>}
    IN  [text \in {pair[1] : pair \in known} |->
            (CHOOSE pair \in known : pair[1] = text)[2]]

\* hashlib.sha256(content).hexdigest(), content being bytes or an encoded
\* text.
Sha256(content) ==
    IF content \in DOMAIN Digests THEN Digests[content]
    ELSE Sha256Computed(content)

(***************************************************************************)
(* DocumentProcessor (src/document_processor/file_handler.py).  An         *)
(* uploaded file is [name, content, size, items, chunks]: its path, its    *)
(* bytes, its size in MB, and what the converter and the splitter make of  *)
(* it: the items of the document, each [text, prov] with prov the page     *)
(* numbers of its provenance, and the chunks of its markdown, each         *)
(* [page_content, metadata].                                               *)
(***************************************************************************)
\* settings.CACHE_EXPIRE_DAYS
CACHE_EXPIRE_DAYS == 2

\* The clock runs until the day after the expiry window.
MaxDays == CACHE_EXPIRE_DAYS + 1

\* constants.MAX_TOTAL_SIZE, in MB
MAX_TOTAL_SIZE == 200

\* The characters of an item's text and of a chunk's content that are matched.
SnippetLength == 100

SupportedSuffixes == {".pdf", ".docx", ".txt", ".md"}

\* os.path.basename
Basename(name) == LET parts == Split(name, "/") IN parts[Len(parts)]

\* s[:n]
Prefix(s, n) == SubSeq(s, 1, IF n <= Len(s) THEN n ELSE Len(s))

RECURSIVE TotalSize(_)
TotalSize(files) ==
    IF files = <<>> THEN 0 ELSE Head(files).size + TotalSize(Tail(files))

\* page_content_map[snippet] = page_no: the map as the sequence of its
\* (snippet, page) pairs in insertion order.
SetPage(map, snippet, page_no) ==
    IF \E n \in 1..Len(map) : map[n].snippet = snippet
    THEN [n \in 1..Len(map) |->
             IF map[n].snippet = snippet
             THEN [snippet |-> snippet, page |-> page_no] ELSE map[n]]
    ELSE Append(map, [snippet |-> snippet, page |-> page_no])

RECURSIVE SetPages(_, _, _)
\* The inner loop over item.prov.
SetPages(map, snippet, prov) ==
    IF prov = <<>> \/ snippet = "" THEN map
    ELSE SetPages(SetPage(map, snippet, Head(prov)), snippet, Tail(prov))

RECURSIVE PageContentMap(_, _)
\* The loop over doc.iterate_items().
PageContentMap(map, items) ==
    IF items = <<>> THEN map
    ELSE PageContentMap(
             SetPages(map, Prefix(Head(items).text, SnippetLength),
                      Head(items).prov),
             Tail(items))

RECURSIVE PageNo(_, _)
\* The page of the first entry of the map that matches the chunk's content,
\* None without a match.
PageNo(map, page_content) ==
    IF map = <<>> THEN None
    ELSE IF \/ Contains(page_content, Head(map).snippet)
            \/ Contains(Head(map).snippet, Prefix(page_content, SnippetLength))
    THEN Some(Head(map).page)
    ELSE PageNo(Tail(map), page_content)

\* {"source": filename, "page": page_no, **chunk.metadata}
Metadata(filename, page_no, chunk_metadata) ==
    [k \in {"source", "page"} \cup DOMAIN chunk_metadata |->
        IF k \in DOMAIN chunk_metadata THEN chunk_metadata[k]
        ELSE IF k = "source" THEN filename
        ELSE page_no]

\* DocumentProcessor._process_file, the conversion succeeding.
ProcessFile(file) ==
    IF \A suffix \in SupportedSuffixes : ~EndsWith(file.name, suffix) THEN <<>>
    ELSE LET page_content_map == PageContentMap(<<>>, file.items)
         IN  [n \in 1..Len(file.chunks) |->
                [page_content |-> file.chunks[n].page_content,
                 metadata |-> Metadata(Basename(file.name),
                                       PageNo(page_content_map,
                                              file.chunks[n].page_content),
                                       file.chunks[n].metadata)]]

\* DocumentProcessor._is_cache_valid
IsCacheValid(cache, cache_path, now) ==
    /\ cache_path \in DOMAIN cache
    /\ now - cache[cache_path].mtime < CACHE_EXPIRE_DAYS

\* DocumentProcessor._save_to_cache
SaveToCache(cache, cache_path, chunks, now) ==
    Put(cache, cache_path, [mtime |-> now, chunks |-> chunks, readable |-> TRUE])

\* open(cache_path, "wb") of _save_to_cache, and nothing dumped after it: the
\* entry's file is created or emptied, and cannot be unpickled.
TruncateEntry(cache, cache_path, now) ==
    Put(cache, cache_path, [mtime |-> now, chunks |-> <<>>, readable |-> FALSE])

\* A mutant of Deduplicate: every chunk is kept.
DeduplicateNothing(all_chunks, seen_hashes, chunks) ==
    [all_chunks |-> all_chunks \o chunks,
     seen_hashes |-> seen_hashes
                        \cup {Sha256(chunks[n].page_content) : n \in 1..Len(chunks)}]

RECURSIVE Deduplicate(_, _, _)
\* The loop over a file's chunks: [all_chunks, seen_hashes] after it.
Deduplicate(all_chunks, seen_hashes, chunks) ==
    IF chunks = <<>> THEN [all_chunks |-> all_chunks, seen_hashes |-> seen_hashes]
    ELSE LET chunk_hash == Sha256(Head(chunks).page_content)
         IN  IF chunk_hash \notin seen_hashes
             THEN Deduplicate(Append(all_chunks, Head(chunks)),
                              seen_hashes \cup {chunk_hash}, Tail(chunks))
             ELSE Deduplicate(all_chunks, seen_hashes, Tail(chunks))

RECURSIVE Unique(_, _, _)
\* The loop of process_question over the sources: those whose (source, page)
\* was not seen before.
Unique(unique_sources, seen, sources) ==
    IF sources = <<>> THEN unique_sources
    ELSE LET s == Head(sources)
             key == <<s.source, s.page>>
         IN  IF key \notin seen
             THEN Unique(Append(unique_sources, s), seen \cup {key}, Tail(sources))
             ELSE Unique(unique_sources, seen, Tail(sources))

\* unique_sources of process_question
UniqueSources(sources) == Unique(<<>>, {}, sources)

\* The uploaded files.
ContractPdf ==
    [name |-> "/tmp/gradio/contract.pdf", content |-> "%PDF contract", size |-> 120,
     items |-> <<[text |-> "Section 5: termination requires 30 days notice.",
                  prov |-> <<5>>],
                 [text |-> "The notice is given in writing.", prov |-> <<5>>]>>,
     chunks |-> <<[page_content |->
                       "Section 5: termination requires 30 days notice.",
                   metadata |-> EmptyDict],
                  [page_content |-> "The notice is given in writing.",
                   metadata |-> EmptyDict]>>]

\* Another file with the text of ContractPdf, on another page.
CopyPdf ==
    [name |-> "/tmp/gradio/copy.pdf", content |-> "%PDF copy", size |-> 60,
     items |-> <<[text |-> "Section 5: termination requires 30 days notice.",
                  prov |-> <<2>>]>>,
     chunks |-> <<[page_content |->
                       "Section 5: termination requires 30 days notice.",
                   metadata |-> EmptyDict]>>]

\* The header metadata the splitter gives a chunk under "# Terms".
TermsHeaders == [header \in {"Header 1"} |-> "Terms"]

TermsMd ==
    [name |-> "/tmp/gradio/terms.md", content |-> "# Terms", size |-> 1,
     items |-> <<[text |-> "Terms", prov |-> <<>>]>>,
     chunks |-> <<[page_content |-> "Payment is due within 30 days.",
                   metadata |-> TermsHeaders]>>]

NotesCsv ==
    [name |-> "/tmp/gradio/notes.csv", content |-> "a,b", size |-> 1,
     items |-> <<>>, chunks |-> <<>>]

Files == {ContractPdf, CopyPdf, TermsMd, NotesCsv}

\* The lists of files process is called with.
Uploads == {<<f>> : f \in Files} \cup {<<f, g>> : f, g \in Files}

\* No process call under way.
IdleProcessor ==
    [pc |-> "idle", files |-> <<>>, n |-> 0, all_chunks |-> <<>>,
     seen_hashes |-> {}, handled |-> <<>>, calls |-> 0]

InitIngest ==
    /\ pickles = EmptyDict
    /\ clock = 0
    /\ proc = IdleProcessor
    /\ cited = None

(***************************************************************************)
(* RetrieverBuilder (src/retriever/builder.py).  A vector store on disk is *)
(* the sequence of the documents embedded into it, in the order they were  *)
(* added; vector_cache maps the hash naming a directory to its store.      *)
(***************************************************************************)
\* RetrieverBuilder._get_docs_hash: the first 16 digits of the digest of the
\* chunks' contents concatenated.
GetDocsHash(docs) ==
    SubSeq(Sha256(Concat([i \in 1..Len(docs) |-> docs[i].page_content])), 1, 16)

PathExistsNever(cache, key) == FALSE
\* os.path.exists(persist_path)
PathExists(cache, key) == key \in DOMAIN cache

Min(a, b) == IF a <= b THEN a ELSE b

\* A mutant of Batch: everything from i on goes into one embedding call.
BatchToTheEnd(docs, i) == SubSeq(docs, i + 1, Len(docs))

\* docs[i:i + EMBEDDING_BATCH_SIZE], i counted from 0
Batch(docs, i) == SubSeq(docs, i + 1, Min(i + EMBEDDING_BATCH_SIZE, Len(docs)))

\* The store of key after a batch was embedded and added to it.
AddDocuments(cache, key, batch) == Put(cache, key, Get(cache, key, <<>>) \o batch)

\* The EnsembleRetriever: BM25 over docs and the vector store at key.
HybridRetriever(docs, key) == [bm25 |-> docs, vector_store |-> key]

\* A caller not in build_hybrid_retriever.
IdleBuilder ==
    [pc |-> "idle", docs |-> <<>>, docs_hash |-> "", i |-> 0, embeds |-> 0,
     hit |-> FALSE, after_built |-> FALSE, retriever |-> None]

\* The callers of build_hybrid_retriever.
BuilderIds == {"caller1", "caller2"}

\* DocB split in two chunks.
DocB1 ==
    [page_content |-> "Payment is due ",
     metadata |-> [source |-> "terms.md", page |-> None]]

DocB2 ==
    [page_content |-> "within 30 days.",
     metadata |-> [source |-> "terms.md", page |-> None]]

\* Two chunks whose contents have the same first 16 digits of the digest.
DocK1 ==
    [page_content |-> "7f4ab0c6725151cf",
     metadata |-> [source |-> "keys.txt", page |-> None]]

DocK2 ==
    [page_content |-> "a7ab4f9b4490b7ed",
     metadata |-> [source |-> "keys.txt", page |-> None]]

\* The chunk lists build_hybrid_retriever is called with: short ones, two of
\* them with the same concatenated content and two with the same truncated
\* digest, and one of three batches.
BuildDocLists ==
    {<<DocA>>, <<DocB>>, <<DocB1, DocB2>>, <<DocK1>>, <<DocK2>>, ManualChunks}

\* RelevanceChecker.__init__
NewRelevanceChecker == [model_id |-> "gpt-5-mini", max_tokens |-> 1000]

\* No checker under repeated calls.
IdleGate ==
    [checker |-> NewRelevanceChecker, retriever |-> EmptyDict,
     classifier |-> EmptyDict, history |-> <<>>]

InitGate == gate = IdleGate

\* session_state as the interface creates it, and no call under way.
NewSession ==
    [file_hashes |-> {}, retriever |-> None, pc |-> "idle",
     question_text |-> "", uploaded_files |-> <<>>, reply |-> None,
     before |-> [file_hashes |-> {}, retriever |-> None], since |-> 0]

InitSession == session = NewSession

InitBuilders ==
    /\ vector_cache = EmptyDict
    /\ builders = [b \in BuilderIds |-> IdleBuilder]
    /\ built = {}
    /\ builds = 0

InitStores ==
    /\ InitBuilders
    /\ InitIngest
    /\ InitSession
    /\ InitGate

NoMatchMessage ==
    "This question isn't related (or there's no data) for your query. Please ask another question relevant to the uploaded document(s)."

\* AgentState as full_pipeline builds it.
InitialState(question, documents) ==
    [question |-> question, documents |-> documents, draft_answer |-> "",
     verification_report |-> "", sources |-> <<>>, is_relevant |-> FALSE]

NoResult == [draft_answer |-> "", verification_report |-> "", sources |-> <<>>]

NoGenerated ==
    [draft_answer |-> "", context_used |-> "", sources |-> <<>>,
     raised |-> FALSE]

\* No agent of the run has been called yet.
NoArgs == [research |-> None, verify |-> None]

NoCallPending == [agent |-> "", documents |-> <<>>, outcome |-> NoCall]

NoReturn == [returned |-> FALSE]

\* Before a run: nothing retrieved, no model called.
InitRun ==
    /\ pc = "start"
    /\ \E q \in Questions : state = InitialState(q, <<>>)
    /\ retrievals = 0
    /\ llm = NoCall
    /\ calls = [gate |-> 0, research |-> 0, verify |-> 0]
    /\ classification = ""
    /\ generated = NoGenerated
    /\ verdict = EmptyDict
    /\ iterations = 0
    /\ last = ""
    /\ always_unsupported = TRUE
    /\ error = ""
    /\ result = NoResult
    /\ args = NoArgs

Init ==
    /\ InitRun
    /\ retrieved \in DocLists
    /\ call = NoCallPending
    /\ ret = NoReturn
    /\ InitStores

\* A mutant of RelevanceUpdate: PARTIAL is refused like NO_MATCH.
RelevanceUpdatePartialRefused(label) ==
    IF label = "CAN_ANSWER" THEN [is_relevant |-> TRUE]
    ELSE [is_relevant |-> FALSE, draft_answer |-> NoMatchMessage]

\* The update _check_relevance_step returns for a classification.
RelevanceUpdate(label) ==
    IF label = "CAN_ANSWER" THEN [is_relevant |-> TRUE]
    ELSE IF label = "PARTIAL" THEN [is_relevant |-> TRUE]
    ELSE [is_relevant |-> FALSE, draft_answer |-> NoMatchMessage]

\* A mutant of Merge: a report already in the state is kept.
MergeKeepingReport(st, update) ==
    [k \in DOMAIN st |->
        IF k = "verification_report" /\ st[k] # "" THEN st[k]
        ELSE IF k \in DOMAIN update THEN update[k]
        ELSE st[k]]

\* A mutant of Merge: the chunk list is not carried over a node that returns
\* a draft.
MergeDroppingDocuments(st, update) ==
    [k \in DOMAIN st |->
        IF k \in DOMAIN update THEN update[k]
        ELSE IF k = "documents" /\ "draft_answer" \in DOMAIN update THEN <<>>
        ELSE st[k]]

\* A node's returned dict merged into the state: returned keys overwrite.
Merge(st, update) ==
    [k \in DOMAIN st |-> IF k \in DOMAIN update THEN update[k] ELSE st[k]]

\* A mutant of DecideAfterRelevanceCheck: the flag is not consulted.
DecideAlwaysRelevant(st) == "relevant"

\* AgentWorkflow._decide_after_relevance_check
DecideAfterRelevanceCheck(st) ==
    IF st.is_relevant THEN "relevant" ELSE "irrelevant"

\* AgentWorkflow._decide_next_step
DecideNextStep(st) ==
    IF Contains(st.verification_report, "Supported: NO")
           \/ Contains(st.verification_report, "Relevant: NO")
    THEN "re_research"
    ELSE "end"

\* The conditional edges of build_workflow.
AfterRelevance(st) ==
    IF DecideAfterRelevanceCheck(st) = "relevant" THEN "research" ELSE "END"

AfterVerify(st) ==
    IF DecideNextStep(st) = "re_research" THEN "research" ELSE "END"

\* full_pipeline up to the graph's entry: retriever.invoke fails and the error
\* is re-raised.
StartRetrievalFails ==
    /\ pc = "start"
    /\ pc' = "error"
    /\ error' = "retrieval"
    /\ retrievals' = retrievals + 1
    /\ UNCHANGED <<unit, rest>>
    /\ UNCHANGED <<state, retrieved, llm, calls, classification, generated,
                   verdict, iterations, last, always_unsupported, result,
                   args>>

\* full_pipeline up to the graph's entry: the documents are retrieved and the
\* initial state is built.
StartPipeline ==
    /\ pc = "start"
    /\ pc' = "check_relevance"
    /\ state' = InitialState(state.question, retrieved)
    /\ retrievals' = retrievals + 1
    /\ UNCHANGED <<unit, rest>>
    /\ UNCHANGED <<retrieved, llm, calls, classification, generated, verdict,
                   iterations, last, always_unsupported, error, result,
                   args>>

\* A mutant of CheckRelevanceRetrievalFails: the failed query is taken for an
\* empty result.
CheckRelevanceRetrievalSwallowed ==
    /\ pc = "check_relevance"
    /\ LET st == Merge(state, RelevanceUpdate("NO_MATCH"))
       IN  /\ state' = st
           /\ pc' = AfterRelevance(st)
    /\ classification' = "NO_MATCH"
    /\ last' = "check_relevance"
    /\ error' = "retrieval"
    /\ retrievals' = retrievals + 1
    /\ UNCHANGED <<unit, rest>>
    /\ UNCHANGED <<retrieved, llm, calls, generated, verdict, iterations,
                   always_unsupported, result, args>>
\* The check_relevance node: the gate's own retriever.invoke fails; nothing
\* catches it before full_pipeline re-raises it.
CheckRelevanceRetrievalFails ==
    /\ pc = "check_relevance"
    /\ pc' = "error"
    /\ error' = "retrieval"
    /\ retrievals' = retrievals + 1
    /\ UNCHANGED <<unit, rest>>
    /\ UNCHANGED <<state, retrieved, llm, calls, classification, generated,
                   verdict, iterations, last, always_unsupported, result,
                   args>>

\* The check_relevance node and the edge after it.
CheckRelevanceStep ==
    /\ pc = "check_relevance"
    /\ \E out \in GateOutcomes :
          LET r == RelevanceCheck(retrieved, out)
              st == Merge(state, RelevanceUpdate(r.label))
          IN  /\ retrievals' = retrievals + 1
              /\ llm' = IF r.called THEN out ELSE NoCall
              /\ calls' = [calls EXCEPT !.gate = @ + (IF r.called THEN 1 ELSE 0)]
              /\ IF r.raised
                 THEN /\ pc' = "error"
                      /\ error' = "model"
                      /\ UNCHANGED <<state, classification, last>>
                 ELSE /\ state' = st
                      /\ classification' = r.label
                      /\ last' = "check_relevance"
                      /\ pc' = AfterRelevance(st)
                      /\ error' = error
    /\ UNCHANGED <<unit, rest>>
    /\ UNCHANGED <<retrieved, generated, verdict, iterations,
                   always_unsupported, result, args>>

\* The research node and the edge to verify.  The graph puts no bound on the
\* number of RESEARCH steps; the model explores the first IterCap of a run.
ResearchStep ==
    /\ pc = "research"
    /\ iterations < IterCap
    /\ \E out \in ResearchOutcomes :
          LET r == Generate(state.documents, out)
          IN  /\ llm' = out
              /\ calls' = [calls EXCEPT !.research = @ + 1]
              /\ iterations' = iterations + 1
              /\ args' = [args EXCEPT !.research =
                              Some([question |-> state.question,
                                    documents |-> state.documents])]
              /\ IF r.raised
                 THEN /\ pc' = "error"
                      /\ error' = "model"
                      /\ UNCHANGED <<state, generated, last>>
                 ELSE /\ generated' = r
                      /\ state' = Merge(state, [draft_answer |-> r.draft_answer,
                                                sources |-> r.sources])
                      /\ last' = "research"
                      /\ pc' = "verify"
                      /\ error' = error
    /\ UNCHANGED <<unit, rest>>
    /\ UNCHANGED <<retrieved, retrievals, classification, verdict,
                   always_unsupported, result>>

\* The verify node and the edge after it.
VerificationStep ==
    /\ pc = "verify"
    /\ \E out \in VerifyOutcomes :
          LET r == VerificationCheck(state.documents, out)
              st == Merge(state, [verification_report |-> r.verification_report])
          IN  /\ llm' = out
              /\ calls' = [calls EXCEPT !.verify = @ + 1]
              /\ args' = [args EXCEPT !.verify =
                              Some([answer |-> state.draft_answer,
                                    documents |-> state.documents])]
              /\ IF r.raised
                 THEN /\ pc' = "error"
                      /\ error' = "model"
                      /\ UNCHANGED <<state, verdict, last, always_unsupported>>
                 ELSE /\ verdict' = Verdict(out)
                      /\ always_unsupported' =
                            (always_unsupported
                                /\ Get(Verdict(out), "Supported", "NO") = "NO")
                      /\ state' = st
                      /\ last' = "verify"
                      /\ pc' = AfterVerify(st)
                      /\ error' = error
    /\ UNCHANGED <<unit, rest>>
    /\ UNCHANGED <<retrieved, retrievals, classification, generated,
                   iterations, result>>

\* full_pipeline returns the three fields of the final state.
ReturnResult ==
    /\ pc = "END"
    /\ pc' = "returned"
    /\ result' = [draft_answer |-> state.draft_answer,
                  verification_report |-> state.verification_report,
                  sources |-> state.sources]
    /\ UNCHANGED <<unit, rest>>
    /\ UNCHANGED <<state, retrieved, retrievals, llm, calls, classification,
                   generated, verdict, iterations, last, always_unsupported,
                   error, args>>

Next ==
    \/ StartRetrievalFails
    \/ StartPipeline
    \/ CheckRelevanceRetrievalFails
    \/ CheckRelevanceStep
    \/ ResearchStep
    \/ VerificationStep
    \/ ReturnResult

Spec == Init /\ [][Next]_vars

(***************************************************************************)
(* The three agents called on their own, each on every call of AgentCalls. *)
(***************************************************************************)
InitAgents ==
    /\ InitRun
    /\ retrieved = <<>>
    /\ call \in AgentCalls
    /\ ret = NoReturn
    /\ InitStores

\* RelevanceChecker.check, the retriever returning call.documents.
CallRelevanceCheck ==
    /\ call.agent = "gate"
    /\ ret = NoReturn
    /\ ret' = [returned |-> TRUE,
               value |-> RelevanceCheck(call.documents, call.outcome)]
    /\ UNCHANGED <<call, run, rest>>

\* ResearchAgent.generate
CallGenerate ==
    /\ call.agent = "research"
    /\ ret = NoReturn
    /\ ret' = [returned |-> TRUE, value |-> Generate(call.documents, call.outcome)]
    /\ UNCHANGED <<call, run, rest>>

\* VerificationAgent.check; verdict is the dict it formats.
CallVerificationCheck ==
    /\ call.agent = "verify"
    /\ ret = NoReturn
    /\ ret' = [returned |-> TRUE,
               value |-> VerificationCheck(call.documents, call.outcome),
               verdict |-> Verdict(call.outcome)]
    /\ UNCHANGED <<call, run, rest>>

\* format_verification_report on call.verdict, then
\* parse_verification_response on the report.
CallFormatThenParse ==
    /\ call.agent = "roundtrip"
    /\ ret = NoReturn
    /\ ret' = [returned |-> TRUE,
               value |-> ParseVerificationResponse(
                             FormatVerificationReport(call.verdict))]
    /\ UNCHANGED <<call, run, rest>>

NextAgents ==
    \/ CallRelevanceCheck
    \/ CallGenerate
    \/ CallVerificationCheck
    \/ CallFormatThenParse

SpecAgents == InitAgents /\ [][NextAgents]_vars

(***************************************************************************)
(* build_hybrid_retriever, called by the callers of BuilderIds, each step  *)
(* one access to the disk or one embedding call.  A caller makes its next  *)
(* call once the last has returned or raised.                              *)
(***************************************************************************)
\* The call, up to the test of os.path.exists(persist_path).
BeginBuild(b, docs) ==
    /\ builders[b].pc \in {"idle", "done", "raised"}
    /\ builds < MaxBuilds
    /\ LET docs_hash == GetDocsHash(docs)
       IN  builders' =
             [builders EXCEPT ![b] =
                [pc |-> IF PathExists(vector_cache, docs_hash) THEN "load"
                        ELSE "create",
                 docs |-> docs, docs_hash |-> docs_hash, i |-> 0, embeds |-> 0,
                 hit |-> PathExists(vector_cache, docs_hash),
                 after_built |-> docs_hash \in built, retriever |-> None]]
    /\ builds' = builds + 1
    /\ UNCHANGED <<vector_cache, built, run, unit, ingest, gate,
                   session>>

\* The cached store is opened and the retriever over it returned.
LoadStore(b) ==
    /\ builders[b].pc = "load"
    /\ builders' =
          [builders EXCEPT ![b].pc = "done",
                           ![b].retriever =
                               Some(HybridRetriever(builders[b].docs,
                                                    builders[b].docs_hash))]
    /\ UNCHANGED <<vector_cache, built, builds, run, unit, ingest, gate,
                   session>>

\* Chroma.from_documents, up to the embedding request: the store at
\* persist_path is opened, which makes its directory; it holds no document
\* yet (or those another caller has put there).
MakeStoreDirectory(b) ==
    /\ builders[b].pc = "create"
    /\ vector_cache' = AddDocuments(vector_cache, builders[b].docs_hash, <<>>)
    /\ builders' = [builders EXCEPT ![b].pc = "embed"]
    /\ UNCHANGED <<built, builds, run, unit, ingest, gate,
                   session>>

\* Chroma.from_documents, the rest: the first batch is embedded and written
\* to the store.
CreateStore(b) ==
    /\ builders[b].pc = "embed"
    /\ vector_cache' = AddDocuments(vector_cache, builders[b].docs_hash,
                                    Batch(builders[b].docs, 0))
    /\ builders' =
          [builders EXCEPT ![b].pc = IF EMBEDDING_BATCH_SIZE < Len(builders[b].docs)
                                     THEN "add" ELSE "built",
                           ![b].i = EMBEDDING_BATCH_SIZE,
                           ![b].embeds = @ + 1]
    /\ UNCHANGED <<built, builds, run, unit, ingest, gate,
                   session>>

\* The embedding call of the first batch fails: the exception is logged and
\* raised again, the directory stays.
CreateStoreFails(b) ==
    /\ builders[b].pc = "embed"
    /\ builders' = [builders EXCEPT ![b].pc = "raised", ![b].embeds = @ + 1]
    /\ UNCHANGED <<vector_cache, built, builds, run, unit, ingest, gate,
                   session>>

\* One pass of the loop: vector_store.add_documents(batch).
AddBatch(b) ==
    /\ builders[b].pc = "add"
    /\ vector_cache' = AddDocuments(vector_cache, builders[b].docs_hash,
                                    Batch(builders[b].docs, builders[b].i))
    /\ builders' =
          [builders EXCEPT ![b].pc = IF builders[b].i + EMBEDDING_BATCH_SIZE
                                          < Len(builders[b].docs)
                                     THEN "add" ELSE "built",
                           ![b].i = @ + EMBEDDING_BATCH_SIZE,
                           ![b].embeds = @ + 1]
    /\ UNCHANGED <<built, builds, run, unit, ingest, gate,
                   session>>

\* The embedding call of a later batch fails: the exception is logged and
\* raised again, the store stays as it is.
AddBatchFails(b) ==
    /\ builders[b].pc = "add"
    /\ builders' = [builders EXCEPT ![b].pc = "raised", ![b].embeds = @ + 1]
    /\ UNCHANGED <<vector_cache, built, builds, run, unit, ingest, gate,
                   session>>

\* After the loop: BM25 over docs, the ensemble, the return.
ReturnRetriever(b) ==
    /\ builders[b].pc = "built"
    /\ builders' =
          [builders EXCEPT ![b].pc = "done",
                           ![b].retriever =
                               Some(HybridRetriever(builders[b].docs,
                                                    builders[b].docs_hash))]
    /\ built' = built \cup {builders[b].docs_hash}
    /\ UNCHANGED <<vector_cache, builds, run, unit, ingest, gate,
                   session>>

InitBuilder ==
    /\ InitRun
    /\ retrieved = <<>>
    /\ call = NoCallPending
    /\ ret = NoReturn
    /\ InitStores

NextBuilder ==
    \/ \E b \in BuilderIds, docs \in BuildDocLists : BeginBuild(b, docs)
    \/ \E b \in BuilderIds : LoadStore(b)
    \/ \E b \in BuilderIds : MakeStoreDirectory(b)
    \/ \E b \in BuilderIds : CreateStore(b)
    \/ \E b \in BuilderIds : CreateStoreFails(b)
    \/ \E b \in BuilderIds : AddBatch(b)
    \/ \E b \in BuilderIds : AddBatchFails(b)
    \/ \E b \in BuilderIds : ReturnRetriever(b)

SpecBuilder == InitBuilder /\ [][NextBuilder]_vars

(***************************************************************************)
(* DocumentProcessor.process, one step for each file of the call, with the *)
(* clock advancing and cache files getting damaged between the calls.      *)
(* handled keeps, for each file of the call, what the step found and did.  *)
(***************************************************************************)
\* The call and validate_files.
BeginProcess(files) ==
    /\ proc.pc \in {"idle", "returned", "raised"}
    /\ proc.calls < MaxProcessCalls
    /\ proc' = [pc |-> IF TotalSize(files) > MAX_TOTAL_SIZE THEN "raised"
                       ELSE "files",
                files |-> files, n |-> 0, all_chunks |-> <<>>,
                seen_hashes |-> {}, handled |-> <<>>, calls |-> proc.calls + 1]
    /\ cited' = None
    /\ UNCHANGED <<pickles, clock, stores, run, unit, gate,
                   session>>

\* What a step records of the file it handles.
Found(file_hash) ==
    [file_hash |-> file_hash,
     existed |-> file_hash \in DOMAIN pickles,
     age |-> IF file_hash \in DOMAIN pickles
             THEN clock - pickles[file_hash].mtime ELSE 0,
     readable |-> file_hash \in DOMAIN pickles /\ pickles[file_hash].readable]

\* The loop body for the next file, its cache entry valid and loaded.
LoadFromCache ==
    /\ proc.pc = "files"
    /\ proc.n < Len(proc.files)
    /\ LET file == proc.files[proc.n + 1]
           file_hash == Sha256(file.content)
       IN  /\ IsCacheValid(pickles, file_hash, clock)
           /\ pickles[file_hash].readable
           /\ LET chunks == pickles[file_hash].chunks
                  kept == Deduplicate(proc.all_chunks, proc.seen_hashes, chunks)
              IN  proc' = [proc EXCEPT
                             !.n = @ + 1,
                             !.all_chunks = kept.all_chunks,
                             !.seen_hashes = kept.seen_hashes,
                             !.handled = Append(@,
                                 [found |-> Found(file_hash), branch |-> "load",
                                  failed |-> FALSE, written |-> None,
                                  chunks |-> chunks])]
    /\ UNCHANGED <<pickles, clock, cited, stores, run, unit, gate,
                   session>>

\* The loop body for the next file, its cache entry valid and pickle.load
\* raising: the except clause logs and goes on to the next file.
LoadFromCacheFails ==
    /\ proc.pc = "files"
    /\ proc.n < Len(proc.files)
    /\ LET file == proc.files[proc.n + 1]
           file_hash == Sha256(file.content)
       IN  /\ IsCacheValid(pickles, file_hash, clock)
           /\ ~pickles[file_hash].readable
           /\ proc' = [proc EXCEPT
                         !.n = @ + 1,
                         !.handled = Append(@,
                             [found |-> Found(file_hash), branch |-> "load",
                              failed |-> TRUE, written |-> None,
                              chunks |-> <<>>])]
    /\ UNCHANGED <<pickles, clock, cited, stores, run, unit, gate,
                   session>>

\* The loop body for the next file, without a valid cache entry, nothing
\* raising: the file is processed and the chunks saved.
ProcessAndCache ==
    /\ proc.pc = "files"
    /\ proc.n < Len(proc.files)
    /\ LET file == proc.files[proc.n + 1]
           file_hash == Sha256(file.content)
           chunks == ProcessFile(file)
           kept == Deduplicate(proc.all_chunks, proc.seen_hashes, chunks)
       IN  /\ ~IsCacheValid(pickles, file_hash, clock)
           /\ pickles' = SaveToCache(pickles, file_hash, chunks, clock)
           /\ proc' = [proc EXCEPT
                         !.n = @ + 1,
                         !.all_chunks = kept.all_chunks,
                         !.seen_hashes = kept.seen_hashes,
                         !.handled = Append(@,
                             [found |-> Found(file_hash), branch |-> "process",
                              failed |-> FALSE, written |-> Some(file_hash),
                              chunks |-> chunks])]
    /\ UNCHANGED <<clock, cited, stores, run, unit, gate,
                   session>>

\* The loop body for the next file, without a valid cache entry and the
\* conversion raising: nothing is saved, the loop goes on to the next file.
ProcessFails ==
    /\ proc.pc = "files"
    /\ proc.n < Len(proc.files)
    /\ LET file == proc.files[proc.n + 1]
           file_hash == Sha256(file.content)
       IN  /\ ~IsCacheValid(pickles, file_hash, clock)
           /\ \E suffix \in SupportedSuffixes : EndsWith(file.name, suffix)
           /\ proc' = [proc EXCEPT
                         !.n = @ + 1,
                         !.handled = Append(@,
                             [found |-> Found(file_hash), branch |-> "process",
                              failed |-> TRUE, written |-> None,
                              chunks |-> <<>>])]
    /\ UNCHANGED <<pickles, clock, cited, stores, run, unit, gate,
                   session>>

\* The loop body for the next file, without a valid cache entry, the
\* conversion succeeding and _save_to_cache raising: open raises and the
\* cache is as it was, or pickle.dump raises after open has emptied the
\* entry's file.  The except clause goes on to the next file, the chunks of
\* this one left out.
SaveToCacheFails ==
    /\ proc.pc = "files"
    /\ proc.n < Len(proc.files)
    /\ LET file == proc.files[proc.n + 1]
           file_hash == Sha256(file.content)
       IN  /\ ~IsCacheValid(pickles, file_hash, clock)
           /\ \E opened \in BOOLEAN :
                 pickles' = IF opened THEN TruncateEntry(pickles, file_hash, clock)
                            ELSE pickles
           /\ proc' = [proc EXCEPT
                         !.n = @ + 1,
                         !.handled = Append(@,
                             [found |-> Found(file_hash), branch |-> "process",
                              failed |-> TRUE, written |-> None,
                              chunks |-> <<>>])]
    /\ UNCHANGED <<clock, cited, stores, run, unit, gate,
                   session>>

\* After the last file: return all_chunks.
ReturnChunks ==
    /\ proc.pc = "files"
    /\ proc.n = Len(proc.files)
    /\ proc' = [proc EXCEPT !.pc = "returned"]
    /\ UNCHANGED <<pickles, clock, cited, stores, run, unit, gate,
                   session>>

\* A day passes, between two calls.
Tick ==
    /\ clock < MaxDays
    /\ proc.pc # "files"
    /\ proc.calls < MaxProcessCalls
    /\ clock' = clock + 1
    /\ UNCHANGED <<pickles, proc, cited, stores, run, unit, gate,
                   session>>

\* A cache file is damaged, between two calls: it stays in place, with its
\* modification time, and can no longer be unpickled.
DamageEntry(file_hash) ==
    /\ file_hash \in DOMAIN pickles
    /\ pickles[file_hash].readable
    /\ proc.pc # "files"
    /\ proc.calls < MaxProcessCalls
    /\ pickles' = [pickles EXCEPT ![file_hash].readable = FALSE]
    /\ UNCHANGED <<clock, proc, cited, stores, run, unit, gate,
                   session>>

\* All orders of a list.
Orders(s) ==
    {[n \in 1..Len(s) |-> s[p[n]]] :
        p \in {q \in [1..Len(s) -> 1..Len(s)] :
                  \A m, n \in 1..Len(s) : q[m] = q[n] => m = n}}

\* The chunks process returned are retrieved, in some order; generate builds
\* their sources, and process_question deduplicates the sources.
CiteSources ==
    /\ proc.pc = "returned"
    /\ cited = None
    /\ \E documents \in Orders(proc.all_chunks) :
          LET sources == BuildContextWithSources(documents).sources
          IN  cited' = Some([sources |-> sources,
                             unique_sources |-> UniqueSources(sources)])
    /\ UNCHANGED <<pickles, clock, proc, stores, run, unit, gate,
                   session>>

InitProcessor ==
    /\ InitRun
    /\ retrieved = <<>>
    /\ call = NoCallPending
    /\ ret = NoReturn
    /\ InitStores

NextProcessor ==
    \/ \E files \in Uploads : BeginProcess(files)
    \/ LoadFromCache
    \/ LoadFromCacheFails
    \/ ProcessAndCache
    \/ ProcessFails
    \/ SaveToCacheFails
    \/ ReturnChunks
    \/ Tick
    \/ \E file \in Files : DamageEntry(Sha256(file.content))
    \/ CiteSources

SpecProcessor == InitProcessor /\ [][NextProcessor]_vars

(***************************************************************************)
(* process_question (src/app.py), called again and again on one session.   *)
(* A call is answered in steps: the test of its inputs and of the state,   *)
(* DocumentProcessor.process on the uploaded files, then the call of       *)
(* build_hybrid_retriever.  session.reply is the first of the four values  *)
(* the call returned, session.before the state dict it was given.          *)
(***************************************************************************)
\* _get_file_hashes
GetFileHashes(uploaded_files) ==
    {Sha256(uploaded_files[n].content) : n \in 1..Len(uploaded_files)}

\* The parameters of build_hybrid_retriever besides self, and the keyword
\* arguments process_question calls it with.
BuildParameters == {"docs"}

BuildKeywords == {"progress_callback"}

\* The keyword arguments of a call that the function does not take.
UnexpectedKeywords(parameters, keywords) == keywords \ parameters

\* The questions typed in the interface.
QuestionTexts == Questions \cup {"", "  "}

\* The state dict of the session.
StateOf(ses) == [file_hashes |-> ses.file_hashes, retriever |-> ses.retriever]

\* The call up to the test of the state: a ValueError for an empty question
\* or no files is caught and returned as the message; otherwise the files
\* are hashed and, for a state without retriever or with other hashes, the
\* documents are processed.
Ask(question_text, uploaded_files) ==
    /\ session.pc = "idle"
    /\ proc.calls < MaxProcessCalls
    /\ session' =
          [session EXCEPT
             !.question_text = question_text,
             !.uploaded_files = uploaded_files,
             !.before = StateOf(session),
             !.since = proc.calls,
             !.pc = IF Strip(question_text) = "" \/ uploaded_files = <<>>
                    THEN "idle"
                    ELSE IF session.retriever = None
                              \/ GetFileHashes(uploaded_files) # session.file_hashes
                    THEN "process"
                    ELSE "pipeline",
             !.reply = IF Strip(question_text) = ""
                       THEN Some("Error: Question cannot be empty")
                       ELSE IF uploaded_files = <<>>
                       THEN Some("Error: No documents uploaded")
                       ELSE None]
    /\ UNCHANGED <<run, unit, stores, ingest, gate>>

\* processor.process(uploaded_files), step by step.
SessionProcess ==
    /\ session.pc = "process"
    /\ \/ /\ proc.calls = session.since
          /\ BeginProcess(session.uploaded_files)
       \/ LoadFromCache
       \/ LoadFromCacheFails
       \/ ProcessAndCache
       \/ ProcessFails
       \/ SaveToCacheFails
       \/ ReturnChunks

\* process raised the ValueError of validate_files: the message is returned.
ProcessRaised ==
    /\ session.pc = "process"
    /\ proc.calls > session.since
    /\ proc.pc = "raised"
    /\ session' = [session EXCEPT
                      !.pc = "idle",
                      !.reply = Some("Error: Total size exceeds "
                                        \o IntStr(MAX_TOTAL_SIZE) \o "MB limit")]
    /\ UNCHANGED <<run, unit, stores, ingest, gate>>

\* process returned the chunks: build_hybrid_retriever is called with a
\* keyword argument it does not take, the TypeError is caught and returned
\* as the message; state.update is not reached.
BuildCallFails ==
    /\ session.pc = "process"
    /\ proc.calls > session.since
    /\ proc.pc = "returned"
    /\ \E keyword \in UnexpectedKeywords(BuildParameters, BuildKeywords) :
          session' = [session EXCEPT
                        !.pc = "idle",
                        !.reply = Some("Error: RetrieverBuilder.build_hybrid_retriever() got an unexpected keyword argument '"
                                          \o keyword \o "'")]
    /\ UNCHANGED <<run, unit, stores, ingest, gate>>

InitSessions ==
    /\ InitRun
    /\ retrieved = <<>>
    /\ call = NoCallPending
    /\ ret = NoReturn
    /\ InitStores

NextSession ==
    \/ \E question_text \in QuestionTexts, uploaded_files \in Uploads \cup {<<>>} :
          Ask(question_text, uploaded_files)
    \/ SessionProcess
    \/ ProcessRaised
    \/ BuildCallFails
    \/ \E file \in Files : session.pc = "idle" /\ DamageEntry(Sha256(file.content))

SpecSession == InitSessions /\ [][NextSession]_vars

(***************************************************************************)
(* A request: one caller builds the retriever for a chunk list, then runs  *)
(* full_pipeline with the retriever it got.  The store of <<DocA>> may be  *)
(* on disk from an earlier request.                                        *)
(***************************************************************************)
RequestCaller == "caller1"

\* What the built retriever may return for the question: up to MaxDocs of
\* the first chunks of docs, none of them twice.
Retrievable(docs) ==
    {s \in SeqsUpTo({docs[n] : n \in 1..Min(MaxDocs, Len(docs))}, MaxDocs) :
        \A m, n \in 1..Len(s) : s[m] = s[n] => m = n}

InitRequest ==
    /\ pc = "build"
    /\ \E q \in Questions : state = InitialState(q, <<>>)
    /\ retrieved = <<>>
    /\ retrievals = 0
    /\ llm = NoCall
    /\ calls = [gate |-> 0, research |-> 0, verify |-> 0]
    /\ classification = ""
    /\ generated = NoGenerated
    /\ verdict = EmptyDict
    /\ iterations = 0
    /\ last = ""
    /\ always_unsupported = TRUE
    /\ error = ""
    /\ result = NoResult
    /\ args = NoArgs
    /\ call = NoCallPending
    /\ ret = NoReturn
    /\ InitIngest
    /\ InitSession
    /\ InitGate
    /\ builders = [b \in BuilderIds |-> IdleBuilder]
    /\ builds = 0
    /\ \E earlier \in SUBSET {<<DocA>>} :
          /\ built = {GetDocsHash(docs) : docs \in earlier}
          /\ vector_cache = [key \in built |->
                                CHOOSE docs \in earlier : GetDocsHash(docs) = key]

\* build_hybrid_retriever for the request.
RequestBuild ==
    /\ pc = "build"
    /\ \/ \E docs \in BuildDocLists :
             /\ builders[RequestCaller].pc = "idle"
             /\ BeginBuild(RequestCaller, docs)
       \/ LoadStore(RequestCaller)
       \/ MakeStoreDirectory(RequestCaller)
       \/ CreateStore(RequestCaller)
       \/ CreateStoreFails(RequestCaller)
       \/ AddBatch(RequestCaller)
       \/ AddBatchFails(RequestCaller)
       \/ ReturnRetriever(RequestCaller)

\* build_hybrid_retriever raised: the request ends with the error.
BuildRaised ==
    /\ pc = "build"
    /\ builders[RequestCaller].pc = "raised"
    /\ pc' = "error"
    /\ error' = "build"
    /\ UNCHANGED <<unit, rest>>
    /\ UNCHANGED <<state, retrieved, retrievals, llm, calls, classification,
                   generated, verdict, iterations, last, always_unsupported,
                   result, args>>

\* build_hybrid_retriever returned: full_pipeline is called with the
\* retriever.
BuildReturned ==
    /\ pc = "build"
    /\ builders[RequestCaller].pc = "done"
    /\ pc' = "start"
    /\ retrieved' \in Retrievable(builders[RequestCaller].docs)
    /\ UNCHANGED <<unit, rest>>
    /\ UNCHANGED <<state, retrievals, llm, calls, classification, generated,
                   verdict, iterations, last, always_unsupported, error,
                   result, args>>

NextRequest ==
    \/ RequestBuild
    \/ BuildRaised
    \/ BuildReturned
    \/ Next

SpecRequest == InitRequest /\ [][NextRequest]_vars

(***************************************************************************)
(* RelevanceChecker.check called MaxChecks times on one checker, with any  *)
(* question and k each time.  The retriever is a function of the question. *)
(* The classifier is deterministic: what it answers to a request is chosen *)
(* when the request is first sent, and given again whenever the same       *)
(* request is sent.                                                        *)
(***************************************************************************)
\* top_docs[:k]
Take(top_docs, k) ==
    IF k >= 0 THEN SubSeq(top_docs, 1, Min(k, Len(top_docs)))
    ELSE SubSeq(top_docs, 1, Len(top_docs) + k)

\* What check sends to the model: the model, the token limit, and the
\* question and the passages it puts in the prompt.
GateRequest(checker, question, top_docs, k) ==
    [model |-> checker.model_id,
     max_completion_tokens |-> checker.max_tokens,
     question |-> question,
     passages |-> Join([n \in 1..Len(Take(top_docs, k)) |->
                           Take(top_docs, k)[n].page_content], "\n\n")]

\* A mutant of CheckerAfterCheck: after a call that gave no text, the token
\* limit is doubled for the next one.
CheckerWithMoreTokensAfterFailure(checker, out) ==
    IF out.kind \in {"raise", "none"}
    THEN [checker EXCEPT !.max_tokens = 2 * @]
    ELSE checker
\* The attributes of the checker after check, out being the outcome of the
\* classification call: check assigns no attribute of self.
CheckerAfterCheck(checker, out) == checker

\* The questions the checker is asked.
GateQuestions == Questions \cup {"When is the payment due?"}

\* What a classifier answers to a request.
ClassifierOutcomes ==
    {Raise("Request timed out."), NoContent, Text("CAN_ANSWER"), Text("no_match")}

\* The values of k: all chunks but the last, one chunk, the default, and the
\* 20 of the workflow.
GateKs == {-1, 1, 3, 20}

InitGateTwice ==
    /\ InitRun
    /\ retrieved = <<>>
    /\ call = NoCallPending
    /\ ret = NoReturn
    /\ InitBuilders
    /\ InitIngest
    /\ InitSession
    /\ \E documents \in DocLists :
          gate = [checker |-> NewRelevanceChecker,
                  retriever |-> [question \in GateQuestions |->
                                    IF question \in Questions THEN documents
                                    ELSE <<DocB>>],
                  classifier |-> EmptyDict, history |-> <<>>]

\* One call of check: retriever.invoke, the empty-retrieval return or the
\* request and the label made of its outcome.
CheckAgain(question, k) ==
    /\ Len(gate.history) < MaxChecks
    /\ LET top_docs == gate.retriever[question]
           request == GateRequest(gate.checker, question, top_docs, k)
       IN  \E out \in (IF top_docs = <<>> THEN {NoCall}
                       ELSE IF request \in DOMAIN gate.classifier
                       THEN {gate.classifier[request]}
                       ELSE ClassifierOutcomes) :
              gate' = [gate EXCEPT
                         !.classifier = IF top_docs = <<>> THEN @
                                        ELSE Put(@, request, out),
                         !.history = Append(@,
                             [question |-> question, k |-> k,
                              top_docs |-> top_docs, outcome |-> out,
                              label |-> RelevanceCheck(top_docs, out).label]),
                         !.checker = IF top_docs = <<>> THEN @
                                     ELSE CheckerAfterCheck(@, out)]
    /\ UNCHANGED <<run, unit, stores, ingest, session>>

NextGateTwice == \E question \in GateQuestions, k \in GateKs : CheckAgain(question, k)

SpecGateTwice == InitGateTwice /\ [][NextGateTwice]_vars


(***************************************************************************)
(* Properties.                                                             *)
(***************************************************************************)
\* The iteration bound the specification asks of the workflow.
MaxIterations == 3

Labels == {"CAN_ANSWER", "PARTIAL", "NO_MATCH"}

\* The first of the three labels, in the order CAN_ANSWER, PARTIAL, NO_MATCH,
\* that occurs in text t; PARTIAL when none does.
FirstLabelOccurring(t) ==
    CASE Contains(t, "CAN_ANSWER") -> "CAN_ANSWER"
      [] ~Contains(t, "CAN_ANSWER") /\ Contains(t, "PARTIAL") -> "PARTIAL"
      [] ~Contains(t, "CAN_ANSWER") /\ ~Contains(t, "PARTIAL")
            /\ Contains(t, "NO_MATCH") -> "NO_MATCH"
      [] OTHER -> "PARTIAL"

\* A model call that raised, or returned no text.
NoText(out) ==
    \/ out.kind \in {"raise", "none"}
    \/ out.kind = "text" /\ Strip(out.text) = ""

\* A line that names one of the five fields of the verification format.
FieldLine(line) ==
    /\ Contains(line, ":")
    /\ LowerStr(Strip(SubSeq(line, 1, Find(line, ":") - 1)))
          \in {"supported", "unsupported claims", "contradictions", "relevant",
               "additional details"}

\* A response text none of whose lines names a field.
Unparseable(t) ==
    LET lines == Split(Strip(t), "\n")
    IN  \A i \in 1..Len(lines) : ~FieldLine(lines[i])

\* C1: in VERIFY, the workflow goes back to RESEARCH exactly when the verdict
\* has Supported = NO or Relevant = NO, and to END in every other case.
C1_VerifyDecision ==
    (last = "verify" /\ pc \in {"research", "END"}) =>
        (pc = "research"
            <=> (verdict["Supported"] = "NO" \/ verdict["Relevant"] = "NO"))

\* C2: with a verification collaborator whose every verdict is not-supported,
\* the run is at END once MaxIterations RESEARCH/VERIFY iterations are done.
C2_LoopBound ==
    (always_unsupported /\ last = "verify" /\ iterations >= MaxIterations) =>
        pc \in {"END", "returned"}

\* C3: no failure of a model call (a raise, no text, unparseable text) in
\* the gate, the research step or the verification step leaves full_pipeline
\* as an error: the step's fallback value is used and the run goes on with a
\* graph node or END.
C3_ModelFailuresAbsorbed ==
    /\ error # "model"
    /\ pc = "error" => error = "retrieval"
    /\ (last = "check_relevance" /\ llm.kind \in {"raise", "none"}) =>
          (classification = "NO_MATCH" /\ pc \in {"END", "returned"})
    /\ (last = "check_relevance" /\ llm.kind = "text"
            /\ \A l \in Labels : ~Contains(UpperStr(llm.text), l)) =>
          (classification = "PARTIAL" /\ pc = "research")
    /\ (last = "research" /\ NoText(llm)) =>
          (state.draft_answer = FallbackAnswer /\ pc = "verify")
    /\ (last = "verify"
            /\ (NoText(llm) \/ (llm.kind = "text" /\ Unparseable(llm.text)))) =>
          /\ verdict["Supported"] = "NO"
          /\ verdict["Relevant"] = "NO"
          /\ Contains(state.verification_report, "**Supported:** NO\n")
          /\ Contains(state.verification_report, "**Relevant:** NO\n")
          /\ pc \in {"research", "END", "returned"}

\* C3 witness: the generation call and the verification call both failed and
\* full_pipeline returned.
C3_Witness ==
    /\ pc = "returned"
    /\ last = "verify"
    /\ llm.kind = "raise"
    /\ result.draft_answer = FallbackAnswer

\* C4: at END the draft answer, which full_pipeline returns, is not empty: it
\* is the refusal message, the research fallback or a non-empty model draft.
C4_NonEmptyAnswer ==
    /\ pc \in {"END", "returned"} =>
          /\ state.draft_answer # ""
          /\ \/ state.draft_answer = NoMatchMessage
             \/ state.draft_answer = FallbackAnswer
             \/ \E out \in ResearchOutcomes :
                   /\ out.kind = "text"
                   /\ Strip(out.text) # ""
                   /\ state.draft_answer = Strip(out.text)
    /\ pc = "returned" =>
          (result.draft_answer = state.draft_answer /\ result.draft_answer # "")

\* C4 witness: a run whose generation call returned only whitespace or failed
\* returned the fallback answer.
C4_Witness ==
    /\ pc = "returned"
    /\ classification = "PARTIAL"
    /\ result.draft_answer = FallbackAnswer

\* C5: when the retriever returns no chunk, the gate answers NO_MATCH and
\* makes no classification call.
C5_EmptyRetrievalNoCall ==
    (last = "check_relevance" /\ retrieved = <<>>) =>
        (classification = "NO_MATCH" /\ calls.gate = 0 /\ llm = NoCall)

\* C5 witness: the gate ran on an empty retrieval.
C5_Witness ==
    /\ last = "check_relevance"
    /\ retrieved = <<>>
    /\ retrievals = 2
    /\ classification = "NO_MATCH"

\* C6: after a NO_MATCH the run is at END with no research, no verification
\* and no further retrieval; the draft is the refusal message and the sources
\* are empty, in the state and in what full_pipeline returns.
C6_NoMatchEndsDirectly ==
    classification = "NO_MATCH" =>
        /\ pc \in {"END", "returned"}
        /\ iterations = 0
        /\ calls.research = 0
        /\ calls.verify = 0
        /\ retrievals = 2
        /\ state.draft_answer = NoMatchMessage
        /\ state.sources = <<>>
        /\ pc = "returned" =>
              result = [draft_answer |-> NoMatchMessage,
                        verification_report |-> "", sources |-> <<>>]

\* C6 witness: the classifier said NO_MATCH about retrieved chunks and
\* full_pipeline returned.
C6_Witness ==
    /\ pc = "returned"
    /\ classification = "NO_MATCH"
    /\ retrieved # <<>>
    /\ llm.kind = "text"

\* C7: when the verification call fails, returns no text or returns text
\* that cannot be parsed, the verdict has Supported = NO, Relevant = NO, empty
\* claim lists and an explanatory note.
C7_FailClosedVerdict ==
    (call.agent = "verify" /\ ret.returned
        /\ (NoText(call.outcome)
               \/ (call.outcome.kind = "text" /\ Unparseable(call.outcome.text)))) =>
        /\ ret.verdict["Supported"] = "NO"
        /\ ret.verdict["Relevant"] = "NO"
        /\ ret.verdict["Unsupported Claims"] = <<>>
        /\ ret.verdict["Contradictions"] = <<>>
        /\ ret.verdict["Additional Details"] # ""

\* C8: with chunks retrieved and the classification call failing, the gate
\* returns NO_MATCH and raises nothing.
C8_GateFailsSafe ==
    (call.agent = "gate" /\ ret.returned /\ call.documents # <<>>
        /\ call.outcome.kind \in {"raise", "none"}) =>
        (ret.value.label = "NO_MATCH" /\ ~ret.value.raised /\ ret.value.called)

\* C8 witness: the gate was called with chunks and its model call raised.
C8_Witness ==
    /\ call.agent = "gate"
    /\ ret.returned
    /\ call.documents # <<>>
    /\ call.outcome.kind = "raise"

\* C9 as stated: the gate returns the first of CAN_ANSWER, PARTIAL, NO_MATCH
\* that occurs in the classifier's output, PARTIAL when none occurs.
C9_FirstLabelOfOutput ==
    (call.agent = "gate" /\ ret.returned /\ call.documents # <<>>
        /\ call.outcome.kind = "text") =>
        (ret.value.label = FirstLabelOccurring(call.outcome.text)
            /\ ret.value.label \in Labels)

\* C9 as amended: the gate returns the first of CAN_ANSWER, PARTIAL, NO_MATCH
\* that occurs in the upper-cased output (the match ignores case), PARTIAL
\* when none occurs; the result is one of the three labels.
C9_FirstLabelOfUpperCasedOutput ==
    (call.agent = "gate" /\ ret.returned /\ call.documents # <<>>
        /\ call.outcome.kind = "text") =>
        (ret.value.label = FirstLabelOccurring(UpperStr(call.outcome.text))
            /\ ret.value.label \in Labels)

\* C9 witness: an output with PARTIAL first and a lower-case can_answer after
\* it was classified CAN_ANSWER.
C9_Witness ==
    /\ call.agent = "gate"
    /\ ret.returned
    /\ call.outcome = Text("PARTIALcan_answer")
    /\ ret.value.label = "CAN_ANSWER"

\* C10: when the generation call fails or yields no text, generate returns
\* the fixed fallback answer with the context and the sources built from the
\* chunks, and raises nothing.
C10_GenerateFallback ==
    (call.agent = "research" /\ ret.returned /\ NoText(call.outcome)) =>
        LET docs == call.documents
            r == ret.value
        IN  /\ r.draft_answer
                  = "I cannot answer this question based on the provided documents."
            /\ ~r.raised
            /\ Len(r.sources) = Len(docs)
            /\ \A i \in 1..Len(docs) :
                  /\ r.sources[i].index = i
                  /\ r.sources[i].source
                        = Get(docs[i].metadata, "source", "Unknown")
                  /\ Contains(r.context_used,
                              "[Source " \o IntStr(i) \o ": "
                                  \o Get(docs[i].metadata, "source", "Unknown"))
                  /\ Contains(r.context_used, "]\n" \o docs[i].page_content)

\* C10 witness: generate was called with two chunks and its model call raised.
C10_Witness ==
    /\ call.agent = "research"
    /\ ret.returned
    /\ call.outcome.kind = "raise"
    /\ Len(call.documents) = 2
    /\ Len(ret.value.sources) = 2


\* The elements of a list, order aside.
Elements(s) == {s[i] : i \in 1..Len(s)}

\* C11: the verdict parsed from the report formatted from a verdict has the
\* same Supported and Relevant values and the same elements, order aside,
\* in Unsupported Claims and in Contradictions.
C11_ReportRoundTrip ==
    (call.agent = "roundtrip" /\ ret.returned) =>
        /\ ret.value["Supported"] = call.verdict["Supported"]
        /\ ret.value["Relevant"] = call.verdict["Relevant"]
        /\ Elements(ret.value["Unsupported Claims"])
              = Elements(call.verdict["Unsupported Claims"])
        /\ Len(ret.value["Unsupported Claims"])
              = Len(call.verdict["Unsupported Claims"])
        /\ Elements(ret.value["Contradictions"])
              = Elements(call.verdict["Contradictions"])
        /\ Len(ret.value["Contradictions"])
              = Len(call.verdict["Contradictions"])

\* The field a response line names, letter case aside, and the value after
\* its first colon.
FieldOfLine(line) == LowerStr(Strip(SubSeq(line, 1, Find(line, ":") - 1)))

ValueOfLine(line) == Strip(SubSeq(line, Find(line, ":") + 1, Len(line)))

\* The lines of a response that name the field.
LinesFor(lines, field) ==
    {i \in 1..Len(lines) :
        Contains(lines[i], ":") /\ FieldOfLine(lines[i]) = LowerStr(field)}

\* What a field's line gives: the items of a bracketed list, the upper-cased
\* YES/NO value, or the text of the note.
GivenValue(field, value) ==
    IF field \in {"Unsupported Claims", "Contradictions"}
    THEN IF StartsWith(value, "[") /\ EndsWith(value, "]")
         THEN ParseItems(Split(SubSeq(value, 2, Len(value) - 1), ","))
         ELSE <<>>
    ELSE IF field = "Additional Details" THEN value
    ELSE UpperStr(value)

\* C12: each of the five fields of the verdict parsed from a response holds
\* the value given on the field's (last) line, and the field's default only
\* when no line names it; the verdict is the dict the formatter reads.
C12_FieldsAsGiven ==
    (call.agent = "verify" /\ ret.returned /\ call.outcome.kind = "text"
        /\ Strip(call.outcome.text) # "") =>
        LET lines == Split(Strip(call.outcome.text), "\n")
        IN  \A n \in 1..Len(ReportKeys) :
                LET field == ReportKeys[n]
                    named == LinesFor(lines, field)
                    given == CHOOSE i \in named : \A j \in named : j <= i
                IN  ret.verdict[field]
                        = IF named = {} THEN DefaultOf(field)
                          ELSE GivenValue(field, ValueOfLine(lines[given]))


\* C13: a build_hybrid_retriever call made after the store of its chunk-set
\* hash was built issues no embedding call, raises nothing, and returns a
\* retriever over the store persisted under that hash.
C13_RebuildLoadsIndex ==
    \A b \in BuilderIds :
        builders[b].after_built =>
            /\ builders[b].embeds = 0
            /\ builders[b].hit
            /\ builders[b].pc \in {"load", "done"}
            /\ builders[b].pc = "done" =>
                  /\ builders[b].retriever # None
                  /\ builders[b].retriever[1].vector_store = builders[b].docs_hash
                  /\ builders[b].docs_hash \in DOMAIN vector_cache

\* C13 witness: a call for a chunk list whose store an earlier call built
\* over three batches has returned.
C13_Witness ==
    \E b \in BuilderIds :
        /\ builders[b].after_built
        /\ builders[b].pc = "done"
        /\ Len(builders[b].docs) > 2 * EMBEDDING_BATCH_SIZE
        /\ Len(vector_cache[builders[b].docs_hash]) = Len(builders[b].docs)

\* C16: no two callers are building the store of the same chunk-set hash at
\* the same time, and no chunk is embedded into a store twice.
C16_OneBuildInFlight ==
    /\ \A b1, b2 \in BuilderIds :
          (b1 # b2 /\ builders[b1].docs_hash = builders[b2].docs_hash) =>
              ~(builders[b1].pc \in {"create", "embed", "add", "built"}
                   /\ builders[b2].pc \in {"create", "embed", "add", "built"})
    /\ \A key \in DOMAIN vector_cache :
          \A m, n \in 1..Len(vector_cache[key]) :
              vector_cache[key][m] = vector_cache[key][n] => m = n


\* The chunks of s whose content is that of chunk.
SameContent(s, chunk) ==
    {n \in 1..Len(s) : s[n].page_content = chunk.page_content}

\* C14: a file whose cache entry exists, is within the expiry window and
\* cannot be read is handled as a miss: no error escapes, the file is
\* processed again and, unless that fails, its chunks are in the list process
\* returns.
C14_CorruptEntryIsMiss ==
    \A n \in 1..Len(proc.handled) :
        LET h == proc.handled[n]
        IN  (h.found.existed /\ h.found.age < CACHE_EXPIRE_DAYS
                /\ ~h.found.readable) =>
                /\ proc.pc # "raised"
                /\ h.branch = "process"
                /\ ~h.failed =>
                      \A m \in 1..Len(ProcessFile(proc.files[n])) :
                          SameContent(proc.all_chunks,
                                      ProcessFile(proc.files[n])[m]) # {}

\* C15: a file's chunks are loaded from the cache exactly when an entry for
\* its content hash exists with an age strictly below the expiry window;
\* otherwise the file is processed and the entry written under the same key,
\* holding the file's chunks; no entry found is ever missing afterwards.
C15_CachePolicy ==
    \A n \in 1..Len(proc.handled) :
        LET h == proc.handled[n]
            file_hash == Sha256(proc.files[n].content)
            valid == h.found.existed /\ h.found.age < CACHE_EXPIRE_DAYS
            loaded == h.branch = "load" /\ ~h.failed
        IN  /\ h.found.file_hash = file_hash
            /\ loaded <=> valid
            /\ loaded => h.chunks = pickles[file_hash].chunks
            /\ ~valid =>
                  /\ h.branch = "process"
                  /\ ~h.failed
                  /\ h.written = Some(file_hash)
                  /\ file_hash \in DOMAIN pickles
                  /\ pickles[file_hash].chunks = ProcessFile(proc.files[n])
            /\ h.found.existed => file_hash \in DOMAIN pickles

\* The entries of a sources list that no earlier entry shares its
\* (source, page) with.
FirstOccurrences(sources) ==
    {n \in 1..Len(sources) :
        \A m \in 1..(n - 1) :
            <<sources[m].source, sources[m].page>>
                # <<sources[n].source, sources[n].page>>}

\* C17: two chunks with the same content from files of different names,
\* uploaded together, both have a source entry in the final sources list;
\* the list is the sources list without the entries that share (source, page)
\* with an earlier one, in the original order.
C17_SourcesBySourceAndPage ==
    cited # None =>
        LET sources == cited[1].sources
            unique_sources == cited[1].unique_sources
            first == FirstOccurrences(sources)
        IN  /\ \A i, j \in 1..Len(proc.handled) :
                  \A m \in 1..Len(proc.handled[i].chunks) :
                      \A n \in 1..Len(proc.handled[j].chunks) :
                          LET c == proc.handled[i].chunks[m]
                              d == proc.handled[j].chunks[n]
                          IN  (c.page_content = d.page_content
                                  /\ c.metadata["source"] # d.metadata["source"]) =>
                                  \A chunk \in {c, d} :
                                      \E k \in 1..Len(unique_sources) :
                                          unique_sources[k].source
                                              = chunk.metadata["source"]
            /\ Len(unique_sources) = Cardinality(first)
            /\ \A k \in 1..Len(unique_sources) :
                  \E n \in first :
                      /\ Cardinality({m \in first : m < n}) = k - 1
                      /\ unique_sources[k] = sources[n]


\* C18: when the store cannot be built (an embedding call of the build
\* fails) or the retriever cannot be queried, the request ends with the
\* error: no retriever is returned by a failed build, no classification is
\* made of a failed query, no draft is generated and no result returned; a
\* request gets past the build only with the retriever built.
C18_RetrievalFailureFailsRequest ==
    /\ builders[RequestCaller].pc = "raised" =>
          /\ pc \in {"build", "error"}
          /\ builders[RequestCaller].retriever = None
          /\ retrievals = 0
    /\ pc \notin {"build", "error"} =>
          /\ builders[RequestCaller].pc = "done"
          /\ builders[RequestCaller].retriever # None
    /\ error \in {"build", "retrieval"} =>
          /\ pc = "error"
          /\ result = NoResult
          /\ classification = ""
          /\ state.draft_answer = ""
          /\ calls = [gate |-> 0, research |-> 0, verify |-> 0]
    /\ pc = "error" => error \in {"build", "retrieval"}

\* C18 witness: the embedding call of the third batch failed, two batches
\* are in the store, and the request has ended with the error.
C18_Witness ==
    /\ pc = "error"
    /\ error = "build"
    /\ builders[RequestCaller].embeds = 3
    /\ Len(vector_cache[builders[RequestCaller].docs_hash])
          = 2 * EMBEDDING_BATCH_SIZE


\* C19: any two calls of check on one checker with the same question and the
\* same k, whatever calls were made before and between them, return the same
\* label, the retriever and the classifier being deterministic.
C19_GateIdempotent ==
    \A m, n \in 1..Len(gate.history) :
        (/\ gate.history[m].question = gate.history[n].question
         /\ gate.history[m].k = gate.history[n].k)
            => gate.history[m].label = gate.history[n].label

\* C19 witness: two calls with the same question and k, both answered
\* CAN_ANSWER by the model, and between them a call with the same question
\* and another k that was answered otherwise.
C19_Witness ==
    \E m, p, n \in 1..Len(gate.history) :
        /\ m < p /\ p < n
        /\ gate.history[m].question = gate.history[n].question
        /\ gate.history[m].k = gate.history[n].k
        /\ gate.history[m].top_docs # <<>>
        /\ gate.history[m].label = "CAN_ANSWER"
        /\ gate.history[n].label = "CAN_ANSWER"
        /\ gate.history[p].question = gate.history[m].question
        /\ gate.history[p].k # gate.history[m].k
        /\ gate.history[p].outcome.kind = "raise"
        /\ gate.history[p].label = "NO_MATCH"


\* C20: every step of a run follows the graph: CHECK_RELEVANCE is entered
\* once, first; it is left for RESEARCH when the label is CAN_ANSWER or
\* PARTIAL and for END when it is NO_MATCH; each RESEARCH is followed at once
\* by VERIFY; VERIFY is left for RESEARCH or END; END is entered only from
\* CHECK_RELEVANCE or VERIFY, never from RESEARCH.
C20_NodeOrder ==
    [][/\ pc = "start" => pc' \in {"check_relevance", "error"}
       /\ pc' = "check_relevance" => pc = "start"
       /\ pc' = "start" => pc = "start"
       /\ pc = "check_relevance" =>
             /\ pc' \in {"research", "END", "error"}
             /\ pc' = "research" <=> classification' \in {"CAN_ANSWER", "PARTIAL"}
             /\ pc' = "END" <=> classification' = "NO_MATCH"
       /\ pc = "research" => pc' = "verify"
       /\ pc = "verify" => pc' \in {"research", "END"}
       /\ pc' = "verify" => pc = "research"
       /\ pc' = "research" => pc \in {"check_relevance", "verify"}
       /\ pc' = "END" => pc \in {"check_relevance", "verify"}
       /\ pc = "END" => pc' = "returned"
       /\ pc \in {"returned", "error"} => pc' = pc
       /\ calls'.gate <= 1]_vars

\* C20 witness: a run classified PARTIAL went through RESEARCH and VERIFY and
\* is back at RESEARCH.
C20_Witness ==
    /\ classification = "PARTIAL"
    /\ last = "verify"
    /\ pc = "research"
    /\ iterations = 1


(***************************************************************************)
(* C21.  Within one run of full_pipeline the question and the chunk list   *)
(* of the state are set before check_relevance (the chunk list is what     *)
(* retriever.invoke returned) and no step changes them: every              *)
(* researcher.generate is given that question and that chunk list, and     *)
(* every verifier.check is given the chunk list the research before it     *)
(* was given.                                                              *)
(***************************************************************************)
C21_QuestionAndChunksFixed ==
    /\ [](/\ pc \in {"check_relevance", "research", "verify", "END",
                      "returned"} => state.documents = retrieved
          /\ args.research # None =>
                args.research[1] = [question |-> state.question,
                                    documents |-> state.documents]
          /\ args.verify # None =>
                /\ args.research # None
                /\ args.verify[1].documents = args.research[1].documents)
    /\ [][pc \notin {"build", "start"} =>
              /\ state'.question = state.question
              /\ state'.documents = state.documents]_vars

\* A second RESEARCH has been given the chunks, after a VERIFY of the first
\* draft against them.
C21_Witness ==
    /\ iterations = 2
    /\ pc = "verify"
    /\ args.verify # None
    /\ state.documents # <<>>
    /\ args.research[1].documents = state.documents


(***************************************************************************)
(* C22.  For every chunk list given to ResearchAgent.generate, sources has *)
(* one entry per chunk, the i-th with index i and the source and page of   *)
(* the i-th chunk, and the context tags the i-th chunk "[Source i:         *)
(* <source>, Page <page>]" when the chunk has a page, "[Source i:          *)
(* <source>]" when it has none.                                            *)
(***************************************************************************)
\* The tag of the i-th chunk: with the page whenever the chunk has one.
TagOf(i, doc) ==
    IF doc.metadata.page # None
    THEN "[Source " \o IntStr(i) \o ": " \o doc.metadata.source \o ", Page "
             \o IntStr(doc.metadata.page[1]) \o "]"
    ELSE "[Source " \o IntStr(i) \o ": " \o doc.metadata.source \o "]"

C22_SourcesInLockstep ==
    (call.agent = "research" /\ ret.returned) =>
        LET documents == call.documents
            sources == ret.value.sources
        IN  /\ Len(sources) = Len(documents)
            /\ \A i \in 1..Len(documents) :
                  /\ sources[i].index = i
                  /\ sources[i].source = documents[i].metadata.source
                  /\ sources[i].page = documents[i].metadata.page
            /\ ret.value.context_used =
                  Join([i \in 1..Len(documents) |->
                           TagOf(i, documents[i]) \o "\n"
                               \o documents[i].page_content], "\n\n")


(***************************************************************************)
(* C23.  On a cache miss, build_hybrid_retriever appends the chunks to one *)
(* store in embedding calls of at most EMBEDDING_BATCH_SIZE chunks each:   *)
(* while it runs the store holds the first chunks of the list in their     *)
(* order, when the loop is over it holds the whole list, each chunk once,  *)
(* and the calls made are as many as the batches of the list.  (One call   *)
(* at a time: concurrent calls are C16.)                                   *)
(***************************************************************************)
C23_BatchesInOrder ==
    /\ [](LET build == builders[RequestCaller]
              docs == build.docs
              store == Get(vector_cache, build.docs_hash, <<>>)
          IN  (build.pc \in {"add", "built", "done"} /\ ~build.hit) =>
                /\ store = SubSeq(docs, 1, Min(build.i, Len(docs)))
                /\ build.pc \in {"built", "done"} =>
                      /\ store = docs
                      /\ build.embeds * EMBEDDING_BATCH_SIZE >= Len(docs)
                      /\ (build.embeds - 1) * EMBEDDING_BATCH_SIZE < Len(docs))
    /\ [][\A key \in DOMAIN vector_cache' :
              LET old == Get(vector_cache, key, <<>>)
                  new == vector_cache'[key]
              IN  /\ Len(new) - Len(old) <= EMBEDDING_BATCH_SIZE
                  /\ old = SubSeq(new, 1, Len(old))]_vars

\* A list of three batches has been embedded after a miss.
C23_Witness ==
    /\ builders[RequestCaller].pc = "done"
    /\ ~builders[RequestCaller].hit
    /\ builders[RequestCaller].embeds = 3
    /\ Len(vector_cache[builders[RequestCaller].docs_hash])
          = 2 * EMBEDDING_BATCH_SIZE + 1


(***************************************************************************)
(* C24.  A store on disk is loaded only for the chunk list it was built    *)
(* from: when a call finds the directory of its hash, the chunks in that   *)
(* store are chunks of the list the call was given.                        *)
(***************************************************************************)
C24_NewChunkSetNewIndex ==
    \A b \in BuilderIds :
        (builders[b].hit /\ builders[b].pc \in {"load", "done"}) =>
            LET store == vector_cache[builders[b].docs_hash]
                docs == builders[b].docs
            IN  \A n \in 1..Len(store) : \E m \in 1..Len(docs) : store[n] = docs[m]


(***************************************************************************)
(* C25.  A call that finds the directory of its hash, while no other call  *)
(* is building that store, loads a store that holds every chunk of its     *)
(* list (the store being one of chunks of that list): a build that failed  *)
(* part-way has left nothing a later call takes for a finished index.      *)
(***************************************************************************)
C25_NoPartialIndexLoaded ==
    \A b \in BuilderIds :
        LET key == builders[b].docs_hash
            docs == builders[b].docs
            store == vector_cache[key]
        IN  (/\ builders[b].hit
             /\ builders[b].pc \in {"load", "done"}
             /\ \A c \in BuilderIds \ {b} :
                    builders[c].docs_hash = key =>
                        builders[c].pc \notin {"create", "embed", "add", "built"}
             /\ \A n \in 1..Len(store) : \E m \in 1..Len(docs) : store[n] = docs[m])
            => \A m \in 1..Len(docs) : \E n \in 1..Len(store) : store[n] = docs[m]


(***************************************************************************)
(* C26.  The report full_pipeline returns is the verdict on the draft it   *)
(* returns.  After every VERIFY the report of the state is the formatted   *)
(* verdict of that VERIFY alone, and the draft it was given is the draft   *)
(* of the state; END is reached from VERIFY or from CHECK_RELEVANCE, and   *)
(* from CHECK_RELEVANCE the report is the empty string.  What is returned  *)
(* is the draft and the report of the state at END.                        *)
(***************************************************************************)
C26_ReportOfReturnedDraft ==
    /\ last = "verify" =>
          /\ args.verify # None
          /\ args.verify[1].answer = state.draft_answer
          /\ state.verification_report = FormatVerificationReport(verdict)
    /\ pc \in {"END", "returned"} =>
          /\ last \in {"check_relevance", "verify"}
          /\ last = "check_relevance" => state.verification_report = ""
    /\ pc = "returned" =>
          /\ result.draft_answer = state.draft_answer
          /\ result.verification_report = state.verification_report

\* A run has returned after two iterations, the second report not the first.
C26_Witness ==
    /\ pc = "returned"
    /\ last = "verify"
    /\ iterations = 2
    /\ result.verification_report # ""
    /\ ~Contains(result.verification_report, "Supported: NO")


(***************************************************************************)
(* C27.  After every process_question call on a session: a call rejected   *)
(* for an empty question or for no files has returned an error message and *)
(* left the state dict as it was; a call that had to process the documents *)
(* (no retriever in the state, or other file hashes) and whose processing  *)
(* returned has rebuilt the retriever and stored it together with the hash *)
(* set of the uploaded files.                                              *)
(***************************************************************************)
C27_SessionState ==
    (session.pc = "idle" /\ session.reply # None) =>
        LET rejected == Strip(session.question_text) = ""
                            \/ session.uploaded_files = <<>>
        IN  /\ rejected =>
                  /\ StartsWith(session.reply[1], "Error: ")
                  /\ StateOf(session) = session.before
            /\ (~rejected /\ proc.calls > session.since /\ proc.pc = "returned") =>
                  /\ session.retriever # None
                  /\ session.file_hashes = GetFileHashes(session.uploaded_files)


(***************************************************************************)
(* C28.  The list DocumentProcessor.process returns holds no two chunks    *)
(* with the same content.  It is made of the chunks of the files that did  *)
(* not fail, file after file and chunk after chunk, each content at its    *)
(* first occurrence only; a file that failed contributes nothing and the   *)
(* files after it are handled all the same.                                *)
(***************************************************************************)
RECURSIVE ChunksOfHandled(_)
\* The chunks of the files handled, in file order then chunk order.
ChunksOfHandled(handled) ==
    IF handled = <<>> THEN <<>>
    ELSE ChunksOfHandled(SubSeq(handled, 1, Len(handled) - 1))
             \o handled[Len(handled)].chunks

\* The positions of s whose content occurs at no earlier position.
FirstByContent(s) ==
    {n \in 1..Len(s) : \A m \in 1..(n - 1) : s[m].page_content # s[n].page_content}

C28_UniqueChunks ==
    proc.pc = "returned" =>
        LET given == ChunksOfHandled(proc.handled)
            kept == proc.all_chunks
        IN  /\ Len(proc.handled) = Len(proc.files)
            /\ \A n \in 1..Len(proc.files) :
                  IF proc.handled[n].failed
                  THEN proc.handled[n].chunks = <<>>
                  ELSE proc.handled[n].chunks = ProcessFile(proc.files[n])
            /\ \A m, n \in 1..Len(kept) :
                  kept[m].page_content = kept[n].page_content => m = n
            /\ Len(kept) = Cardinality(FirstByContent(given))
            /\ \A n \in 1..Len(kept) :
                  \E g \in FirstByContent(given) :
                      /\ kept[n] = given[g]
                      /\ Cardinality({h \in FirstByContent(given) : h <= g}) = n

\* Two files sharing a chunk were processed and the chunk of the second
\* file was dropped.
C28_Witness ==
    /\ proc.pc = "returned"
    /\ Len(proc.files) = 2
    /\ proc.files[1] # proc.files[2]
    /\ ~proc.handled[1].failed
    /\ ~proc.handled[2].failed
    /\ proc.handled[2].chunks # <<>>
    /\ Len(proc.all_chunks) = Len(proc.handled[1].chunks)

=============================================================================
